---- MODULE Spec2Model ----
(***************************************************************************)
(* worker-client: typed requests and notifications between two peers over  *)
(* a message channel (Worker.postMessage / 'message' events).              *)
(*                                                                         *)
(* Two connections, "main" and "worker", are bound to the two ends of one  *)
(* channel.  channel[c] is the FIFO queue of envelopes posted by the peer  *)
(* of c and not yet delivered to c as a 'message' event.                   *)
(*                                                                         *)
(* The class Connection (src/unnamed/part_000) and the factory             *)
(* createConnection (src/unnamed/part_001) hold the same fields; the       *)
(* definitions below follow the class and name the fields without '#'.     *)
(***************************************************************************)
EXTENDS Integers, Sequences, FiniteSets, TLC

VARIABLES
  disposed,               \* #disposed
  requestId,              \* #requestId
  requestCallbacks,       \* #requestCallbacks: name -> handler
  notificationCallbacks,  \* #notificationCallbacks: name -> Set (insertion order)
  resolvers,              \* #resolvers: id -> the promise (index into calls) it settles
  listening,              \* whether #onMessage is registered on the target
  channel,                \* envelopes in flight towards each connection
  running,                \* handler invocations awaited by #onMessage
  calls,                  \* the promises returned by sendRequest, in call order
  tokens,                 \* the disposables returned by onRequest / onNotification
  handled,                \* history: id -> what #onMessage did with the Request of that id
  notifications,          \* history: number of Notification envelopes posted so far
  inputs,                 \* history: number of calls of the public operations so far
  last,                   \* what the last step threw (or left unhandled) and the listeners it invoked
  fnMap,                  \* createBridge: the cache of the bridge, name -> function
  bridged                 \* whether createBridge has returned the bridge, what the last read of
                          \* the bridge yielded, and the onRequest calls createBridge made

vars == <<disposed, requestId, requestCallbacks, notificationCallbacks, resolvers,
          listening, channel, running, calls, tokens, handled, notifications, inputs, last,
          fnMap, bridged>>

----------------------------------------------------------------------------
(* Bounds of the model *)

\* sendRequest calls, both connections together
MaxRequests == 2
\* Notification envelopes posted, both connections together
MaxNotifications == 1
\* disposables handed out, both connections together
MaxRegistrations == 3
\* calls of onRequest, onNotification, sendRequest, sendNotification,
\* postMessage and createBridge together
MaxInputs == 3

----------------------------------------------------------------------------
(* Program constants *)

NOTIFICATION == 0
REQUEST == 1
RESPONSE == 2

\* Number.MAX_SAFE_INTEGER is 2^53 - 1; the model checker's integers are 32 bits
\* wide, so the largest of them stands in for it.
MAX_SAFE_INTEGER == 2147483647

----------------------------------------------------------------------------
(* Values that cross the channel *)

JsValue(t, v, c) == [type |-> t, val |-> v, cause |-> c]

JsUndefined == JsValue("undefined", "", "")
JsZero      == JsValue("number", "0", "")
JsLiteral   == JsValue("string", "literal", "")
JsSymbol    == JsValue("symbol", "unclonable", "")

\* new Error(message, { cause })
JsError(message, cause) == JsValue("Error", message, cause)

\* The absence of a failure (not a JavaScript value).
NoFailure == JsValue("none", "", "")

\* The values callers pass and handlers return or throw: a falsy one, a truthy
\* one, and one the channel cannot carry.
Values == {JsZero, JsLiteral, JsSymbol}

\* ToBoolean, as applied by `if (error)`.
Truthy(v) ==
  ~ \/ v.type \in {"undefined", "null"}
    \/ v.type = "number" /\ v.val \in {"0", "NaN"}
    \/ v.type = "string" /\ v.val = ""
    \/ v.type = "boolean" /\ v.val = "false"

\* The structured clone made by postMessage refuses symbols (and functions).
Clonable(v) == v.type \notin {"symbol", "function"}

DataCloneError(v) == JsError("could not be cloned", "")

DisposedError == JsError("Connection is disposed", "")
AlreadyRegisteredError(name) == JsError("A callback has already been registered", name)
NotImplementedError(name) == JsError("Request not implemented", name)
MissingCallbackError(id) == JsError("Missing callback for response ID", ToString(id))

----------------------------------------------------------------------------
(* The environment: peers, names, handlers, listeners *)

Conns == {"main", "worker"}
Peer(c) == IF c = "main" THEN "worker" ELSE "main"

\* As in test/connection.test.ts, the main thread sends requests and notifications
\* and the worker registers the handlers and listeners that serve them.  Either
\* side may dispose its connection, and may use it after that.
Callers == {"main"}
Servers == {"worker"}

RequestNames == {"getPet", "callback"}
NotificationNames == {"sendEmail", "receivedEmail"}

\* Request handlers a caller may register.  "echo" returns its first parameter,
\* "thrower" throws (or rejects with) its first parameter; "unclonable" returns,
\* and "throwUnclonable" throws, a Symbol.  A handler may be asynchronous: its
\* outcome is awaited, and arrives in a later step.
Handlers == {"echo", "thrower", "unclonable", "throwUnclonable"}
\* In the history of dispatched Requests: no handler was registered.
NoHandler == "none"
\* "ok" returns, and "throwLiteral" throws, a string, whatever the parameters.  A
\* handler called without parameters finds its first parameter undefined.
HandlerOutcome(h, params) ==
  [ok |-> h \in {"echo", "unclonable", "ok"},
   value |-> IF h \in {"echo", "thrower"}
               THEN (IF params = <<>> THEN JsUndefined ELSE params[1])
             ELSE IF h \in {"ok", "throwLiteral"} THEN JsLiteral
             ELSE JsSymbol]

\* Notification listeners a caller may register.  "failing" throws.
Listeners == {"listener", "failing"}
ListenerThrows(l) == l = "failing"
ListenerError == JsError("listener failed", "")

Params == {<<v>> : v \in Values}

\* The worker of test/connection.worker.ts can post a message of its own making
\* on the channel; the test posts a Response whose id no request carries.
StrayId == 1337
StrayMessages == {[type |-> RESPONSE, id |-> StrayId]}

\* Every disposable and every handler invocation there can be
Tokens ==
  [kind : {"request"}, name : RequestNames, fn : Handlers]
    \cup [kind : {"notification"}, name : NotificationNames, fn : Listeners]
\* The ids a request can carry: the first ones, and the last before the counter wraps
RequestIds == (1..MaxRequests) \cup {MAX_SAFE_INTEGER}
Invocations == [id : RequestIds, fn : Handlers, params : Params]

----------------------------------------------------------------------------
(* Helpers *)

\* Destructuring `const { error, id, result } = data`: a missing key reads undefined.
Field(data, key) == IF key \in DOMAIN data THEN data[key] ELSE JsUndefined

\* Map.prototype.set / delete on a map modelled as a function
MapSet(m, k, v) == [x \in DOMAIN m \cup {k} |-> IF x = k THEN v ELSE m[x]]
MapDelete(m, k) == [x \in DOMAIN m \ {k} |-> m[x]]
EmptyMap == [x \in {} |-> 0]

InSeq(s, e) == \E i \in 1..Len(s) : s[i] = e
\* Set.prototype.add / delete on a Set modelled as its insertion-ordered sequence
SetAdd(s, e) == IF InSeq(s, e) THEN s ELSE Append(s, e)
SetDelete(s, e) == SelectSeq(s, LAMBDA x : x # e)

Step(failure, invoked) == [failure |-> failure, invoked |-> invoked]

\* Functions are told apart by the order of their creation; a read that yields
\* undefined yields no function
NoFunction == 0
Bridged(created, returned, onRequest) ==
  [created |-> created, returned |-> returned, onRequest |-> onRequest]

\* Mutant: the constructor does not add the message listener.
Connection_Unsubscribed(target, options) ==
  [target |-> target, options |-> options, disposed |-> FALSE, requestId |-> 0,
   requestCallbacks |-> EmptyMap, notificationCallbacks |-> EmptyMap,
   resolvers |-> EmptyMap, listening |-> FALSE]

----------------------------------------------------------------------------
\* new Connection(target, options): the fields of the instance, and the message
\* listener the constructor adds to the target
Connection(target, options) ==
  [target |-> target, options |-> options, disposed |-> FALSE, requestId |-> 0,
   requestCallbacks |-> EmptyMap, notificationCallbacks |-> EmptyMap,
   resolvers |-> EmptyMap, listening |-> TRUE]

\* Mutant: invert makes a connection that does not listen to its target.
Invert_Deaf(target, options) ==
  [Connection(target, options) EXCEPT !.listening = FALSE]

\* Connection.invert(target, options)
Invert(target, options) == Connection(target, options)

\* The main thread makes its connection with Connection.invert(worker), the
\* worker makes its own with new Connection(globalThis); neither passes options.
Made(c) ==
  IF c = "main" THEN Invert(Peer(c), JsUndefined) ELSE Connection(Peer(c), JsUndefined)

Init ==
  /\ disposed = [c \in Conns |-> Made(c).disposed]
  /\ requestId = [c \in Conns |-> Made(c).requestId]
  /\ requestCallbacks = [c \in Conns |-> Made(c).requestCallbacks]
  /\ notificationCallbacks = [c \in Conns |-> Made(c).notificationCallbacks]
  /\ resolvers = [c \in Conns |-> Made(c).resolvers]
  /\ listening = [c \in Conns |-> Made(c).listening]
  /\ channel = [c \in Conns |-> <<>>]
  /\ running = [c \in Conns |-> {}]
  /\ calls = [c \in Conns |-> <<>>]
  /\ tokens = [c \in Conns |-> {}]
  /\ handled = [c \in Conns |-> EmptyMap]
  /\ notifications = 0
  /\ inputs = 0
  /\ last = Step(NoFailure, <<>>)
  /\ fnMap = EmptyMap
  /\ bridged = Bridged(FALSE, NoFunction, <<>>)

----------------------------------------------------------------------------
(* The channel *)

\* postMessage clones its message: it throws when a payload cannot be cloned.
EnvelopeClonable(data) ==
  /\ "params" \in DOMAIN data => \A i \in 1..Len(data.params) : Clonable(data.params[i])
  /\ "result" \in DOMAIN data => Clonable(data.result)
  /\ "error" \in DOMAIN data => Clonable(data.error)

\* #send: this.#target.postMessage(data, this.#options), when it does not throw
Send(ch, c, data) == [ch EXCEPT ![Peer(c)] = Append(@, data)]

\* Mutant: the disposed flag is never consulted.
CheckDisposed_Never(c) == FALSE

\* #checkDisposed
CheckDisposed(c) == disposed[c]

Registrations == Cardinality(tokens["main"]) + Cardinality(tokens["worker"])
Requests == Len(calls["main"]) + Len(calls["worker"])

\* Whether the bounds leave room for one more call, and for what it adds
MayCall == inputs < MaxInputs
MayRegister(c, token) == token \in tokens[c] \/ Registrations < MaxRegistrations
MayRequest == Requests < MaxRequests
MayNotify == notifications < MaxNotifications

----------------------------------------------------------------------------
(* The public operations *)

\* Mutant: a second registration replaces the first instead of being refused.
OnRequest_Overwrite(c, name, callback) ==
  LET token == [kind |-> "request", name |-> name, fn |-> callback] IN
  /\ MayCall
  /\ inputs' = inputs + 1
  /\ ~CheckDisposed(c) => MayRegister(c, token)
  /\ IF CheckDisposed(c) THEN
       /\ last' = Step(DisposedError, <<>>)
       /\ UNCHANGED <<requestCallbacks, tokens>>
     ELSE
       /\ requestCallbacks' =
            [requestCallbacks EXCEPT ![c] = MapSet(@, name, callback)]
       /\ tokens' = [tokens EXCEPT ![c] = @ \cup {token}]
       /\ last' = Step(NoFailure, <<>>)
  /\ UNCHANGED <<disposed, requestId, notificationCallbacks, resolvers, listening,
                 channel, running, calls, handled, notifications>>
  /\ UNCHANGED <<fnMap, bridged>>

OnRequest(c, name, callback) ==
  LET token == [kind |-> "request", name |-> name, fn |-> callback] IN
  /\ MayCall
  /\ inputs' = inputs + 1
  /\ (~CheckDisposed(c) /\ name \notin DOMAIN requestCallbacks[c])
       => MayRegister(c, token)
  /\ IF CheckDisposed(c) THEN
       /\ last' = Step(DisposedError, <<>>)
       /\ UNCHANGED <<requestCallbacks, tokens>>
     ELSE IF name \in DOMAIN requestCallbacks[c] THEN
       /\ last' = Step(AlreadyRegisteredError(name), <<>>)
       /\ UNCHANGED <<requestCallbacks, tokens>>
     ELSE
       /\ requestCallbacks' =
            [requestCallbacks EXCEPT ![c] = MapSet(@, name, callback)]
       /\ tokens' = [tokens EXCEPT ![c] = @ \cup {token}]
       /\ last' = Step(NoFailure, <<>>)
  /\ UNCHANGED <<disposed, requestId, notificationCallbacks, resolvers, listening,
                 channel, running, calls, handled, notifications>>
  /\ UNCHANGED <<fnMap, bridged>>

OnNotification(c, name, callback) ==
  LET token == [kind |-> "notification", name |-> name, fn |-> callback]
      callbacks == IF name \in DOMAIN notificationCallbacks[c]
                   THEN notificationCallbacks[c][name] ELSE <<>>
  IN
  /\ MayCall
  /\ inputs' = inputs + 1
  /\ ~CheckDisposed(c) => MayRegister(c, token)
  /\ IF CheckDisposed(c) THEN
       /\ last' = Step(DisposedError, <<>>)
       /\ UNCHANGED <<notificationCallbacks, tokens>>
     ELSE
       /\ notificationCallbacks' =
            [notificationCallbacks EXCEPT ![c] = MapSet(@, name, SetAdd(callbacks, callback))]
       /\ tokens' = [tokens EXCEPT ![c] = @ \cup {token}]
       /\ last' = Step(NoFailure, <<>>)
  /\ UNCHANGED <<disposed, requestId, requestCallbacks, resolvers, listening,
                 channel, running, calls, handled, notifications>>
  /\ UNCHANGED <<fnMap, bridged>>

\* Mutant: the disposable of a listener removes the whole Set of its name.
DisposeToken_WholeSet(c, token) ==
  /\ token \in tokens[c]
  /\ IF token.kind = "request" THEN
       /\ requestCallbacks' = [requestCallbacks EXCEPT ![c] = MapDelete(@, token.name)]
       /\ UNCHANGED notificationCallbacks
     ELSE
       /\ notificationCallbacks' =
            [notificationCallbacks EXCEPT ![c] = MapDelete(@, token.name)]
       /\ UNCHANGED requestCallbacks
  /\ last' = Step(NoFailure, <<>>)
  /\ UNCHANGED <<disposed, requestId, resolvers, listening, channel, running, calls,
                 tokens, handled, notifications, inputs>>
  /\ UNCHANGED <<fnMap, bridged>>

\* Mutant: disposing the token of a request handler leaves the handler registered.
DisposeToken_KeepRequest(c, token) ==
  /\ token \in tokens[c]
  /\ IF token.kind = "request" THEN
       /\ UNCHANGED <<requestCallbacks, notificationCallbacks>>
     ELSE
       /\ notificationCallbacks' =
            IF token.name \in DOMAIN notificationCallbacks[c]
            THEN [notificationCallbacks EXCEPT ![c][token.name] = SetDelete(@, token.fn)]
            ELSE notificationCallbacks
       /\ UNCHANGED requestCallbacks
  /\ last' = Step(NoFailure, <<>>)
  /\ UNCHANGED <<disposed, requestId, resolvers, listening, channel, running, calls,
                 tokens, handled, notifications, inputs>>
  /\ UNCHANGED <<fnMap, bridged>>

\* The disposables returned by onRequest and onNotification.  A Set of listeners
\* leaves the map only by clear() in the connection's dispose, after which nothing
\* reads it: deleting from such a Set changes nothing observable.
DisposeToken(c, token) ==
  /\ token \in tokens[c]
  /\ IF token.kind = "request" THEN
       /\ requestCallbacks' = [requestCallbacks EXCEPT ![c] = MapDelete(@, token.name)]
       /\ UNCHANGED notificationCallbacks
     ELSE
       /\ notificationCallbacks' =
            IF token.name \in DOMAIN notificationCallbacks[c]
            THEN [notificationCallbacks EXCEPT ![c][token.name] = SetDelete(@, token.fn)]
            ELSE notificationCallbacks
       /\ UNCHANGED requestCallbacks
  /\ last' = Step(NoFailure, <<>>)
  /\ UNCHANGED <<disposed, requestId, resolvers, listening, channel, running, calls,
                 tokens, handled, notifications, inputs>>
  /\ UNCHANGED <<fnMap, bridged>>

\* The promise returned by sendRequest
Call(name, params, id, state, value) ==
  [name |-> name, params |-> params, id |-> id, state |-> state, value |-> value]

\* Mutant: the id counter restarts at 1 whenever it is even.
SendRequest_EarlyWrap(c, name, params) ==
  LET id == IF requestId[c] % 2 = 0 THEN 1 ELSE (requestId[c] % MAX_SAFE_INTEGER) + 1
      data == [type |-> REQUEST, id |-> id, name |-> name, params |-> params]
  IN
  /\ MayCall
  /\ inputs' = inputs + 1
  /\ MayRequest
  /\ IF CheckDisposed(c) THEN
       /\ calls' = [calls EXCEPT ![c] = Append(@, Call(name, params, 0, "rejected", DisposedError))]
       /\ UNCHANGED <<requestId, resolvers, channel>>
     ELSE
       /\ requestId' = [requestId EXCEPT ![c] = id]
       /\ resolvers' = [resolvers EXCEPT ![c] = MapSet(@, id, Len(calls[c]) + 1)]
       /\ IF EnvelopeClonable(data) THEN
            /\ channel' = Send(channel, c, data)
            /\ calls' = [calls EXCEPT ![c] = Append(@, Call(name, params, id, "pending", JsUndefined))]
          ELSE
            /\ calls' = [calls EXCEPT ![c] =
                 Append(@, Call(name, params, id, "rejected", DataCloneError(params[1])))]
            /\ UNCHANGED channel
  /\ last' = Step(NoFailure, <<>>)
  /\ UNCHANGED <<disposed, requestCallbacks, notificationCallbacks, listening, running,
                 tokens, handled, notifications>>
  /\ UNCHANGED <<fnMap, bridged>>

\* Mutant: the id is allocated and the resolver stored before the disposed check.
SendRequest_AllocateFirst(c, name, params) ==
  LET id == (requestId[c] % MAX_SAFE_INTEGER) + 1
      data == [type |-> REQUEST, id |-> id, name |-> name, params |-> params]
  IN
  /\ MayCall
  /\ inputs' = inputs + 1
  /\ MayRequest
  /\ requestId' = [requestId EXCEPT ![c] = id]
  /\ resolvers' = [resolvers EXCEPT ![c] = MapSet(@, id, Len(calls[c]) + 1)]
  /\ IF CheckDisposed(c) THEN
       /\ calls' = [calls EXCEPT ![c] = Append(@, Call(name, params, 0, "rejected", DisposedError))]
       /\ UNCHANGED channel
     ELSE IF EnvelopeClonable(data) THEN
       /\ channel' = Send(channel, c, data)
       /\ calls' = [calls EXCEPT ![c] = Append(@, Call(name, params, id, "pending", JsUndefined))]
     ELSE
       /\ calls' = [calls EXCEPT ![c] =
            Append(@, Call(name, params, id, "rejected", DataCloneError(params[1])))]
       /\ UNCHANGED channel
  /\ last' = Step(NoFailure, <<>>)
  /\ UNCHANGED <<disposed, requestCallbacks, notificationCallbacks, listening, running,
                 tokens, handled, notifications>>
  /\ UNCHANGED <<fnMap, bridged>>

\* Mutant: the counter is incremented before the modulo, so MAX is followed by 0.
SendRequest_ModuloLast(c, name, params) ==
  LET id == (requestId[c] + 1) % MAX_SAFE_INTEGER
      data == [type |-> REQUEST, id |-> id, name |-> name, params |-> params]
  IN
  /\ MayCall
  /\ inputs' = inputs + 1
  /\ MayRequest
  /\ IF CheckDisposed(c) THEN
       /\ calls' = [calls EXCEPT ![c] = Append(@, Call(name, params, 0, "rejected", DisposedError))]
       /\ UNCHANGED <<requestId, resolvers, channel>>
     ELSE
       /\ requestId' = [requestId EXCEPT ![c] = id]
       /\ resolvers' = [resolvers EXCEPT ![c] = MapSet(@, id, Len(calls[c]) + 1)]
       /\ IF EnvelopeClonable(data) THEN
            /\ channel' = Send(channel, c, data)
            /\ calls' = [calls EXCEPT ![c] = Append(@, Call(name, params, id, "pending", JsUndefined))]
          ELSE
            /\ calls' = [calls EXCEPT ![c] =
                 Append(@, Call(name, params, id, "rejected", DataCloneError(params[1])))]
            /\ UNCHANGED channel
  /\ last' = Step(NoFailure, <<>>)
  /\ UNCHANGED <<disposed, requestCallbacks, notificationCallbacks, listening, running,
                 tokens, handled, notifications>>
  /\ UNCHANGED <<fnMap, bridged>>

SendRequest(c, name, params) ==
  LET id == (requestId[c] % MAX_SAFE_INTEGER) + 1
      data == [type |-> REQUEST, id |-> id, name |-> name, params |-> params]
  IN
  /\ MayCall
  /\ inputs' = inputs + 1
  /\ MayRequest
  /\ IF CheckDisposed(c) THEN
       /\ calls' = [calls EXCEPT ![c] = Append(@, Call(name, params, 0, "rejected", DisposedError))]
       /\ UNCHANGED <<requestId, resolvers, channel>>
     ELSE
       /\ requestId' = [requestId EXCEPT ![c] = id]
       /\ resolvers' = [resolvers EXCEPT ![c] = MapSet(@, id, Len(calls[c]) + 1)]
       /\ IF EnvelopeClonable(data) THEN
            /\ channel' = Send(channel, c, data)
            /\ calls' = [calls EXCEPT ![c] = Append(@, Call(name, params, id, "pending", JsUndefined))]
          ELSE
            /\ calls' = [calls EXCEPT ![c] =
                 Append(@, Call(name, params, id, "rejected", DataCloneError(params[1])))]
            /\ UNCHANGED channel
  /\ last' = Step(NoFailure, <<>>)
  /\ UNCHANGED <<disposed, requestCallbacks, notificationCallbacks, listening, running,
                 tokens, handled, notifications>>
  /\ UNCHANGED <<fnMap, bridged>>

\* Mutant: sendNotification swallows the exception of the post.
SendNotification_Swallow(c, name, params) ==
  LET data == [type |-> NOTIFICATION, name |-> name, params |-> params] IN
  /\ MayCall
  /\ inputs' = inputs + 1
  /\ IF CheckDisposed(c) THEN
       /\ last' = Step(DisposedError, <<>>)
       /\ UNCHANGED <<channel, notifications>>
     ELSE IF EnvelopeClonable(data) THEN
       /\ MayNotify
       /\ notifications' = notifications + 1
       /\ channel' = Send(channel, c, data)
       /\ last' = Step(NoFailure, <<>>)
     ELSE
       /\ last' = Step(NoFailure, <<>>)
       /\ UNCHANGED <<channel, notifications>>
  /\ UNCHANGED <<disposed, requestId, requestCallbacks, notificationCallbacks, resolvers,
                 listening, running, calls, tokens, handled>>
  /\ UNCHANGED <<fnMap, bridged>>

SendNotification(c, name, params) ==
  LET data == [type |-> NOTIFICATION, name |-> name, params |-> params] IN
  /\ MayCall
  /\ inputs' = inputs + 1
  /\ IF CheckDisposed(c) THEN
       /\ last' = Step(DisposedError, <<>>)
       /\ UNCHANGED <<channel, notifications>>
     ELSE IF EnvelopeClonable(data) THEN
       /\ MayNotify
       /\ notifications' = notifications + 1
       /\ channel' = Send(channel, c, data)
       /\ last' = Step(NoFailure, <<>>)
     ELSE
       /\ last' = Step(DataCloneError(params[1]), <<>>)
       /\ UNCHANGED <<channel, notifications>>
  /\ UNCHANGED <<disposed, requestId, requestCallbacks, notificationCallbacks, resolvers,
                 listening, running, calls, tokens, handled>>
  /\ UNCHANGED <<fnMap, bridged>>

\* Mutant: a second dispose re-opens the connection.
Dispose_Toggle(c) ==
  /\ disposed' = [disposed EXCEPT ![c] = ~@]
  /\ requestCallbacks' = [requestCallbacks EXCEPT ![c] = EmptyMap]
  /\ notificationCallbacks' = [notificationCallbacks EXCEPT ![c] = EmptyMap]
  /\ listening' = [listening EXCEPT ![c] = disposed[c]]
  /\ last' = Step(NoFailure, <<>>)
  /\ UNCHANGED <<requestId, resolvers, channel, running, calls, tokens, handled,
                 notifications, inputs>>
  /\ UNCHANGED <<fnMap, bridged>>

\* Mutant: dispose forgets the pending requests too.
Dispose_ClearResolvers(c) ==
  /\ disposed' = [disposed EXCEPT ![c] = TRUE]
  /\ requestCallbacks' = [requestCallbacks EXCEPT ![c] = EmptyMap]
  /\ notificationCallbacks' = [notificationCallbacks EXCEPT ![c] = EmptyMap]
  /\ resolvers' = [resolvers EXCEPT ![c] = EmptyMap]
  /\ listening' = [listening EXCEPT ![c] = FALSE]
  /\ last' = Step(NoFailure, <<>>)
  /\ UNCHANGED <<requestId, channel, running, calls, tokens, handled,
                 notifications, inputs>>
  /\ UNCHANGED <<fnMap, bridged>>

\* Mutant: dispose leaves the message listener on the target.
Dispose_KeepListener(c) ==
  /\ disposed' = [disposed EXCEPT ![c] = TRUE]
  /\ requestCallbacks' = [requestCallbacks EXCEPT ![c] = EmptyMap]
  /\ notificationCallbacks' = [notificationCallbacks EXCEPT ![c] = EmptyMap]
  /\ last' = Step(NoFailure, <<>>)
  /\ UNCHANGED <<requestId, resolvers, listening, channel, running, calls, tokens,
                 handled, notifications, inputs>>
  /\ UNCHANGED <<fnMap, bridged>>

\* Mutant: dispose only sets the flag; the tables and the listener stay.
Dispose_FlagOnly(c) ==
  /\ disposed' = [disposed EXCEPT ![c] = TRUE]
  /\ last' = Step(NoFailure, <<>>)
  /\ UNCHANGED <<requestCallbacks, notificationCallbacks, listening>>
  /\ UNCHANGED <<requestId, resolvers, channel, running, calls, tokens, handled,
                 notifications, inputs>>
  /\ UNCHANGED <<fnMap, bridged>>

\* [Symbol.dispose]
Dispose(c) ==
  /\ disposed' = [disposed EXCEPT ![c] = TRUE]
  /\ requestCallbacks' = [requestCallbacks EXCEPT ![c] = EmptyMap]
  /\ notificationCallbacks' = [notificationCallbacks EXCEPT ![c] = EmptyMap]
  /\ listening' = [listening EXCEPT ![c] = FALSE]
  /\ last' = Step(NoFailure, <<>>)
  /\ UNCHANGED <<requestId, resolvers, channel, running, calls, tokens, handled,
                 notifications, inputs>>
  /\ UNCHANGED <<fnMap, bridged>>

\* Code on the side of c posts a message on the channel without the connection:
\* globalThis.postMessage(message, options)
PostMessage(c, message) ==
  /\ MayCall
  /\ inputs' = inputs + 1
  /\ channel' = Send(channel, c, message)
  /\ last' = Step(NoFailure, <<>>)
  /\ UNCHANGED <<disposed, requestId, requestCallbacks, notificationCallbacks, resolvers,
                 listening, running, calls, tokens, handled, notifications>>
  /\ UNCHANGED <<fnMap, bridged>>

----------------------------------------------------------------------------
(* #onMessage: the reaction to one inbound envelope *)

\* for (const callback of callbacks) callback?.(...params): the loop runs in
\* insertion order and ends at the first listener that throws.
FirstThrowing(callbacks) ==
  IF \E i \in 1..Len(callbacks) : ListenerThrows(callbacks[i])
  THEN CHOOSE i \in 1..Len(callbacks) :
         /\ ListenerThrows(callbacks[i])
         /\ \A j \in 1..(i - 1) : ~ListenerThrows(callbacks[j])
  ELSE 0

Invoked(callbacks, params) ==
  LET n == IF FirstThrowing(callbacks) = 0 THEN Len(callbacks) ELSE FirstThrowing(callbacks)
  IN [i \in 1..n |-> [fn |-> callbacks[i], params |-> params]]

OnMessageNotification(c, data) ==
  LET name == data.name
      params == data.params
  IN
  /\ IF name \notin DOMAIN notificationCallbacks[c] THEN
       last' = Step(NoFailure, <<>>)
     ELSE
       LET callbacks == notificationCallbacks[c][name] IN
       last' = Step(IF FirstThrowing(callbacks) = 0 THEN NoFailure ELSE ListenerError,
                    Invoked(callbacks, params))
  /\ UNCHANGED <<resolvers, running, calls, handled>>

\* Mutant: a Request without a handler is dropped without a Response.
OnMessageRequest_Silent(c, data) ==
  LET id == data.id
      name == data.name
      params == data.params
  IN
  /\ IF name \notin DOMAIN requestCallbacks[c] THEN
       /\ channel' = [channel EXCEPT ![c] = Tail(@)]
       /\ handled' = [handled EXCEPT ![c] =
            MapSet(@, id, [id |-> id, fn |-> NoHandler, params |-> params])]
       /\ UNCHANGED running
     ELSE
       LET callback == requestCallbacks[c][name]
           invocation == [id |-> id, fn |-> callback, params |-> params]
       IN
       /\ running' = [running EXCEPT ![c] = @ \cup {invocation}]
       /\ handled' = [handled EXCEPT ![c] = MapSet(@, id, invocation)]
       /\ channel' = [channel EXCEPT ![c] = Tail(@)]
  /\ last' = Step(NoFailure, <<>>)
  /\ UNCHANGED <<resolvers, calls>>

\* The Request branch up to `await callback(...params)`
OnMessageRequest(c, data) ==
  LET id == data.id
      name == data.name
      params == data.params
  IN
  /\ IF name \notin DOMAIN requestCallbacks[c] THEN
       /\ channel' = Send([channel EXCEPT ![c] = Tail(@)], c,
            [type |-> RESPONSE, id |-> id, error |-> NotImplementedError(name)])
       /\ handled' = [handled EXCEPT ![c] =
            MapSet(@, id, [id |-> id, fn |-> NoHandler, params |-> params])]
       /\ UNCHANGED running
     ELSE
       LET callback == requestCallbacks[c][name]
           invocation == [id |-> id, fn |-> callback, params |-> params]
       IN
       /\ running' = [running EXCEPT ![c] = @ \cup {invocation}]
       /\ handled' = [handled EXCEPT ![c] = MapSet(@, id, invocation)]
       /\ channel' = [channel EXCEPT ![c] = Tail(@)]
  /\ last' = Step(NoFailure, <<>>)
  /\ UNCHANGED <<resolvers, calls>>

Settle(call, state, value) == [call EXCEPT !.state = state, !.value = value]

\* Mutant: a Response without a pending request is dropped silently.
OnMessageResponse_DropOrphan(c, data) ==
  LET error == Field(data, "error")
      id == data.id
      result == Field(data, "result")
  IN
  /\ IF id \notin DOMAIN resolvers[c] THEN
       /\ last' = Step(NoFailure, <<>>)
       /\ UNCHANGED <<resolvers, calls>>
     ELSE
       LET callbacks == resolvers[c][id] IN
       /\ resolvers' = [resolvers EXCEPT ![c] = MapDelete(@, id)]
       /\ calls' = [calls EXCEPT ![c][callbacks] =
            IF Truthy(error) THEN Settle(@, "rejected", error)
            ELSE Settle(@, "resolved", result)]
       /\ last' = Step(NoFailure, <<>>)
  /\ UNCHANGED <<running, handled>>

\* Mutant: a Response settles the oldest outstanding request, whatever its id.
OnMessageResponse_InOrder(c, data) ==
  LET error == Field(data, "error")
      id == data.id
      result == Field(data, "result")
      pending == {k \in 1..Len(calls[c]) : calls[c][k].state = "pending"}
  IN
  /\ IF id \notin DOMAIN resolvers[c] \/ pending = {} THEN
       /\ last' = Step(MissingCallbackError(id), <<>>)
       /\ UNCHANGED <<resolvers, calls>>
     ELSE
       LET callbacks == CHOOSE k \in pending : \A l \in pending : k <= l IN
       /\ resolvers' = [resolvers EXCEPT ![c] = MapDelete(@, id)]
       /\ calls' = [calls EXCEPT ![c][callbacks] =
            IF Truthy(error) THEN Settle(@, "rejected", error)
            ELSE Settle(@, "resolved", result)]
       /\ last' = Step(NoFailure, <<>>)
  /\ UNCHANGED <<running, handled>>

\* Mutant: the resolver stays in the table after it has settled its request.
OnMessageResponse_KeepResolver(c, data) ==
  LET error == Field(data, "error")
      id == data.id
      result == Field(data, "result")
  IN
  /\ IF id \notin DOMAIN resolvers[c] THEN
       /\ last' = Step(MissingCallbackError(id), <<>>)
       /\ UNCHANGED <<resolvers, calls>>
     ELSE
       LET callbacks == resolvers[c][id] IN
       /\ UNCHANGED resolvers
       /\ calls' = [calls EXCEPT ![c][callbacks] =
            IF Truthy(error) THEN Settle(@, "rejected", error)
            ELSE Settle(@, "resolved", result)]
       /\ last' = Step(NoFailure, <<>>)
  /\ UNCHANGED <<running, handled>>

\* Mutant: a Response without a result is taken for a failure.
OnMessageResponse_RequireResult(c, data) ==
  LET error == Field(data, "error")
      id == data.id
      result == Field(data, "result")
  IN
  /\ IF id \notin DOMAIN resolvers[c] THEN
       /\ last' = Step(MissingCallbackError(id), <<>>)
       /\ UNCHANGED <<resolvers, calls>>
     ELSE
       LET callbacks == resolvers[c][id] IN
       /\ resolvers' = [resolvers EXCEPT ![c] = MapDelete(@, id)]
       /\ calls' = [calls EXCEPT ![c][callbacks] =
            IF Truthy(error) \/ result = JsUndefined THEN Settle(@, "rejected", error)
            ELSE Settle(@, "resolved", result)]
       /\ last' = Step(NoFailure, <<>>)
  /\ UNCHANGED <<running, handled>>

\* The Response branch.  The resolver settles the promise made inside sendRequest;
\* the promise sendRequest returned follows it when the post succeeded.  When the
\* post threw, the returned promise is already rejected with that failure and
\* nothing holds the inner one: resolving it shows nowhere, and rejecting it is a
\* rejection without a handler, which the host reports.
OnMessageResponse(c, data) ==
  LET error == Field(data, "error")
      id == data.id
      result == Field(data, "result")
  IN
  /\ IF id \notin DOMAIN resolvers[c] THEN
       /\ last' = Step(MissingCallbackError(id), <<>>)
       /\ UNCHANGED <<resolvers, calls>>
     ELSE
       LET callbacks == resolvers[c][id]
           awaited == calls[c][callbacks].state = "pending"
       IN
       /\ resolvers' = [resolvers EXCEPT ![c] = MapDelete(@, id)]
       /\ calls' =
            IF awaited
            THEN [calls EXCEPT ![c][callbacks] =
                    IF Truthy(error) THEN Settle(@, "rejected", error)
                    ELSE Settle(@, "resolved", result)]
            ELSE calls
       /\ last' = Step(IF ~awaited /\ Truthy(error) THEN error ELSE NoFailure, <<>>)
  /\ UNCHANGED <<running, handled>>

\* Mutant: no message is dispatched while a handler is running.
Deliver_Blocking(c) ==
  /\ channel[c] # <<>>
  /\ running[c] = {}
  /\ LET data == Head(channel[c]) IN
     IF ~listening[c] THEN
       /\ channel' = [channel EXCEPT ![c] = Tail(@)]
       /\ last' = Step(NoFailure, <<>>)
       /\ UNCHANGED <<resolvers, running, calls, handled>>
     ELSE IF data.type = NOTIFICATION THEN
       /\ channel' = [channel EXCEPT ![c] = Tail(@)]
       /\ OnMessageNotification(c, data)
     ELSE IF data.type = REQUEST THEN
       OnMessageRequest(c, data)
     ELSE IF data.type = RESPONSE THEN
       /\ channel' = [channel EXCEPT ![c] = Tail(@)]
       /\ OnMessageResponse(c, data)
     ELSE
       /\ channel' = [channel EXCEPT ![c] = Tail(@)]
       /\ last' = Step(NoFailure, <<>>)
       /\ UNCHANGED <<resolvers, running, calls, handled>>
  /\ UNCHANGED <<disposed, requestId, requestCallbacks, notificationCallbacks, listening,
                 tokens, notifications, inputs>>
  /\ UNCHANGED <<fnMap, bridged>>

\* Mutant: message events still reach a connection that removed its listener.
Deliver_StillSubscribed(c) ==
  /\ channel[c] # <<>>
  /\ LET data == Head(channel[c]) IN
     IF ~(listening[c] \/ disposed[c]) THEN
       /\ channel' = [channel EXCEPT ![c] = Tail(@)]
       /\ last' = Step(NoFailure, <<>>)
       /\ UNCHANGED <<resolvers, running, calls, handled>>
     ELSE IF data.type = NOTIFICATION THEN
       /\ channel' = [channel EXCEPT ![c] = Tail(@)]
       /\ OnMessageNotification(c, data)
     ELSE IF data.type = REQUEST THEN
       OnMessageRequest(c, data)
     ELSE IF data.type = RESPONSE THEN
       /\ channel' = [channel EXCEPT ![c] = Tail(@)]
       /\ OnMessageResponse(c, data)
     ELSE
       /\ channel' = [channel EXCEPT ![c] = Tail(@)]
       /\ last' = Step(NoFailure, <<>>)
       /\ UNCHANGED <<resolvers, running, calls, handled>>
  /\ UNCHANGED <<disposed, requestId, requestCallbacks, notificationCallbacks, listening,
                 tokens, notifications, inputs>>
  /\ UNCHANGED <<fnMap, bridged>>

\* The channel hands the oldest envelope in flight to the 'message' listeners of
\* its target.  After removeEventListener there is none: the event has no effect.
\* #onMessage has a branch for each of the three message types and does nothing
\* for an envelope of any other type.
Deliver(c) ==
  /\ channel[c] # <<>>
  /\ LET data == Head(channel[c]) IN
     IF ~listening[c] THEN
       /\ channel' = [channel EXCEPT ![c] = Tail(@)]
       /\ last' = Step(NoFailure, <<>>)
       /\ UNCHANGED <<resolvers, running, calls, handled>>
     ELSE IF data.type = NOTIFICATION THEN
       /\ channel' = [channel EXCEPT ![c] = Tail(@)]
       /\ OnMessageNotification(c, data)
     ELSE IF data.type = REQUEST THEN
       OnMessageRequest(c, data)
     ELSE IF data.type = RESPONSE THEN
       /\ channel' = [channel EXCEPT ![c] = Tail(@)]
       /\ OnMessageResponse(c, data)
     ELSE
       /\ channel' = [channel EXCEPT ![c] = Tail(@)]
       /\ last' = Step(NoFailure, <<>>)
       /\ UNCHANGED <<resolvers, running, calls, handled>>
  /\ UNCHANGED <<disposed, requestId, requestCallbacks, notificationCallbacks, listening,
                 tokens, notifications, inputs>>
  /\ UNCHANGED <<fnMap, bridged>>

\* Mutant: when the channel refuses the result, the failure leaves the step and
\* nothing more is posted.
Responses_ResultOnly(id, outcome) ==
  LET resultData == [type |-> RESPONSE, id |-> id, result |-> outcome.value]
      innerData == [type |-> RESPONSE, id |-> id, error |-> outcome.value]
      outerData == [type |-> RESPONSE, id |-> id, error |-> DataCloneError(outcome.value)]
  IN
  IF outcome.ok THEN (IF EnvelopeClonable(resultData) THEN <<resultData>> ELSE <<>>)
  ELSE IF EnvelopeClonable(innerData) THEN <<innerData>>
  ELSE <<outerData>>

\* Mutant: a Response the channel refuses is given up.
Responses_NoRetry(id, outcome) ==
  LET data == IF outcome.ok THEN [type |-> RESPONSE, id |-> id, result |-> outcome.value]
              ELSE [type |-> RESPONSE, id |-> id, error |-> outcome.value]
  IN IF EnvelopeClonable(data) THEN <<data>> ELSE <<>>

\* Mutant: a handler's failure is not caught, and its Request is left unanswered.
Responses_NoCatch(id, outcome) ==
  LET resultData == [type |-> RESPONSE, id |-> id, result |-> outcome.value] IN
  IF outcome.ok /\ EnvelopeClonable(resultData) THEN <<resultData>> ELSE <<>>

\* Mutant: the Response of a successful handler carries no result.
Responses_NoResult(id, outcome) ==
  IF outcome.ok THEN <<[type |-> RESPONSE, id |-> id]>>
  ELSE <<[type |-> RESPONSE, id |-> id,
          error |-> IF Clonable(outcome.value) THEN outcome.value
                    ELSE DataCloneError(outcome.value)]>>

\* The Request branch after `await callback(...params)`: the nested try/catch.
\* The envelopes it posts (at most one), given the handler's outcome.
Responses(id, outcome) ==
  LET resultData == [type |-> RESPONSE, id |-> id, result |-> outcome.value]
      inner == IF outcome.ok THEN DataCloneError(outcome.value) ELSE outcome.value
      innerData == [type |-> RESPONSE, id |-> id, error |-> inner]
      outerData == [type |-> RESPONSE, id |-> id, error |-> DataCloneError(inner)]
  IN
  IF outcome.ok /\ EnvelopeClonable(resultData) THEN <<resultData>>
  ELSE IF EnvelopeClonable(innerData) THEN <<innerData>>
  ELSE IF EnvelopeClonable(outerData) THEN <<outerData>>
  ELSE <<>>

\* Mutant: the outcome of a handler that is no longer registered is dropped.
Complete_IfRegistered(c, invocation) ==
  /\ invocation \in running[c]
  /\ running' = [running EXCEPT ![c] = @ \ {invocation}]
  /\ LET registered == \E name \in DOMAIN requestCallbacks[c] :
                         requestCallbacks[c][name] = invocation.fn
         posted == IF registered
                   THEN Responses(invocation.id, HandlerOutcome(invocation.fn, invocation.params))
                   ELSE <<>>
     IN
     /\ channel' = IF posted = <<>> THEN channel ELSE Send(channel, c, posted[1])
     /\ last' = Step(IF posted = <<>> THEN DataCloneError(JsUndefined) ELSE NoFailure, <<>>)
  /\ UNCHANGED <<disposed, requestId, requestCallbacks, notificationCallbacks, resolvers,
                 listening, calls, tokens, handled, notifications, inputs>>
  /\ UNCHANGED <<fnMap, bridged>>

\* Mutant: a disposed connection does not post the Response of a handler.
Complete_UnlessDisposed(c, invocation) ==
  /\ invocation \in running[c]
  /\ running' = [running EXCEPT ![c] = @ \ {invocation}]
  /\ LET posted == IF CheckDisposed(c) THEN <<>>
                   ELSE Responses(invocation.id, HandlerOutcome(invocation.fn, invocation.params))
     IN
     /\ channel' = IF posted = <<>> THEN channel ELSE Send(channel, c, posted[1])
     /\ last' = Step(IF posted = <<>> THEN DataCloneError(JsUndefined) ELSE NoFailure, <<>>)
  /\ UNCHANGED <<disposed, requestId, requestCallbacks, notificationCallbacks, resolvers,
                 listening, calls, tokens, handled, notifications, inputs>>
  /\ UNCHANGED <<fnMap, bridged>>

\* The handler's outcome arrives.
Complete(c, invocation) ==
  /\ invocation \in running[c]
  /\ running' = [running EXCEPT ![c] = @ \ {invocation}]
  /\ LET posted == Responses(invocation.id, HandlerOutcome(invocation.fn, invocation.params)) IN
     /\ channel' = IF posted = <<>> THEN channel ELSE Send(channel, c, posted[1])
     /\ last' = Step(IF posted = <<>> THEN DataCloneError(JsUndefined) ELSE NoFailure, <<>>)
  /\ UNCHANGED <<disposed, requestId, requestCallbacks, notificationCallbacks, resolvers,
                 listening, calls, tokens, handled, notifications, inputs>>
  /\ UNCHANGED <<fnMap, bridged>>

----------------------------------------------------------------------------
(* createBridge *)

\* A property of `implementation`: its key (a string or a symbol), whether it is
\* an own property or one inherited from the prototype, whether it is enumerable,
\* and its value, a function or something else.
NotFunction == "property"
Properties ==
  [key : RequestNames, keyType : {"string", "symbol"}, own : BOOLEAN,
   enumerable : BOOLEAN, value : {"echo", NotFunction}]

\* The objects passed as `implementation`: no, one or two properties, in the
\* order of their creation.  No implementation at all is the empty object.
Implementations ==
  {<<>>} \cup {<<p>> : p \in Properties}
         \cup {pq \in {<<p, q>> : p \in Properties, q \in Properties} : pq[1].key # pq[2].key}

\* for (const key in implementation): the enumerable string-keyed properties, the
\* object's own first, the inherited ones after them
ForIn(implementation) ==
  SelectSeq(implementation, LAMBDA p : p.keyType = "string" /\ p.enumerable /\ p.own)
    \o SelectSeq(implementation, LAMBDA p : p.keyType = "string" /\ p.enumerable /\ ~p.own)

\* Mutant: createBridge undoes its registrations when one of them fails.
RECURSIVE RegisterAllOrNone(_, _, _, _)
RegisterAllOrNone(original, callbacks, fns, called) ==
  IF fns = <<>> THEN [callbacks |-> callbacks, failure |-> NoFailure, called |-> called]
  ELSE LET key == Head(fns).key IN
       IF key \in DOMAIN callbacks
       THEN [callbacks |-> original, failure |-> AlreadyRegisteredError(key),
             called |-> Append(called, key)]
       ELSE RegisterAllOrNone(original, MapSet(callbacks, key, Head(fns).value), Tail(fns),
                              Append(called, key))
RegisterAll_Rollback(callbacks, fns, called) ==
  RegisterAllOrNone(callbacks, callbacks, fns, called)

\* The onRequest calls of the loop, one after the other, on an undisposed
\* connection: the first that throws ends createBridge.
RECURSIVE RegisterAll(_, _, _)
RegisterAll(callbacks, fns, called) ==
  IF fns = <<>> THEN [callbacks |-> callbacks, failure |-> NoFailure, called |-> called]
  ELSE LET key == Head(fns).key IN
       IF key \in DOMAIN callbacks
       THEN [callbacks |-> callbacks, failure |-> AlreadyRegisteredError(key),
             called |-> Append(called, key)]
       ELSE RegisterAll(MapSet(callbacks, key, Head(fns).value), Tail(fns),
                        Append(called, key))

\* createBridge(connection, implementation).  The disposables onRequest returns
\* are dropped.
CreateBridge(c, implementation) ==
  LET fns == SelectSeq(ForIn(implementation), LAMBDA p : p.value # NotFunction)
      done == IF CheckDisposed(c) /\ fns # <<>>
              THEN [callbacks |-> requestCallbacks[c], failure |-> DisposedError,
                    called |-> <<Head(fns).key>>]
              ELSE RegisterAll(requestCallbacks[c], fns, <<>>)
  IN
  /\ MayCall
  /\ inputs' = inputs + 1
  /\ ~bridged.created
  /\ requestCallbacks' = [requestCallbacks EXCEPT ![c] = done.callbacks]
  /\ last' = Step(done.failure, <<>>)
  /\ fnMap' = EmptyMap
  /\ bridged' = Bridged(done.failure = NoFailure, NoFunction, done.called)
  /\ UNCHANGED <<disposed, requestId, notificationCallbacks, resolvers, listening,
                 channel, running, calls, tokens, handled, notifications>>

\* The keys a caller reads on the bridge
BridgeKeys ==
  [type : {"string"}, name : RequestNames] \cup {[type |-> "symbol", name |-> "test"]}

\* Mutant: every read makes a new function.
Get_NoCache(key) ==
  /\ bridged.created
  /\ IF key.type # "string" THEN
       /\ bridged' = [bridged EXCEPT !.returned = NoFunction]
       /\ UNCHANGED fnMap
     ELSE
       LET fn == IF key.name \in DOMAIN fnMap THEN fnMap[key.name] + 1 ELSE 1 IN
       /\ fnMap' = MapSet(fnMap, key.name, fn)
       /\ bridged' = [bridged EXCEPT !.returned = fn]
  /\ UNCHANGED <<disposed, requestId, requestCallbacks, notificationCallbacks, resolvers,
                 listening, channel, running, calls, tokens, handled, notifications,
                 inputs, last>>

\* The get trap of the Proxy: a read of property `key` of the bridge
Get(key) ==
  /\ bridged.created
  /\ IF key.type # "string" THEN
       /\ bridged' = [bridged EXCEPT !.returned = NoFunction]
       /\ UNCHANGED fnMap
     ELSE IF key.name \in DOMAIN fnMap THEN
       /\ bridged' = [bridged EXCEPT !.returned = fnMap[key.name]]
       /\ UNCHANGED fnMap
     ELSE
       LET fn == Cardinality(DOMAIN fnMap) + 1 IN
       /\ fnMap' = MapSet(fnMap, key.name, fn)
       /\ bridged' = [bridged EXCEPT !.returned = fn]
  /\ UNCHANGED <<disposed, requestId, requestCallbacks, notificationCallbacks, resolvers,
                 listening, channel, running, calls, tokens, handled, notifications,
                 inputs, last>>

\* The name the function fn was made for: (...params) => connection.sendRequest(name, ...params)
NameOf(fn) == CHOOSE name \in DOMAIN fnMap : fnMap[name] = fn

\* A call of a function the bridge has handed out
BridgeCall(c, fn, params) ==
  /\ bridged.created
  /\ \E name \in DOMAIN fnMap : fnMap[name] = fn
  /\ SendRequest(c, NameOf(fn), params)

\* The functions a bridge can hand out
BridgeFunctions == 1..Cardinality(RequestNames)

----------------------------------------------------------------------------
Next ==
  \/ \E c \in Servers, name \in RequestNames, callback \in Handlers :
       OnRequest(c, name, callback)
  \/ \E c \in Servers, name \in NotificationNames, callback \in Listeners :
       OnNotification(c, name, callback)
  \/ \E c \in Servers, token \in Tokens : DisposeToken(c, token)
  \/ \E c \in Callers, name \in RequestNames, params \in Params :
       SendRequest(c, name, params)
  \/ \E c \in Callers, name \in NotificationNames, params \in Params :
       SendNotification(c, name, params)
  \/ \E c \in Servers, message \in StrayMessages : PostMessage(c, message)
  \/ \E c \in Conns : Dispose(c)
  \/ \E c \in Conns : Deliver(c)
  \/ \E c \in Conns, invocation \in Invocations : Complete(c, invocation)

Spec == Init /\ [][Next]_vars

\* The host's event loop delivers every envelope in flight, and a handler that has
\* been invoked comes to its outcome.
Fairness ==
  /\ \A c \in Conns : WF_vars(Deliver(c))
  /\ \A c \in Conns : \A invocation \in Invocations : WF_vars(Complete(c, invocation))

FairSpec == Spec /\ Fairness

\* A connection late in its life: "main" has allocated all ids but the last, or
\* all of them, and the request of id 1 is still outstanding, its handler never
\* having settled.  The histories (calls, handled, inputs) start at this state;
\* only the outstanding request is kept in calls.
InitWrap ==
  /\ disposed = [c \in Conns |-> FALSE]
  /\ requestId \in {[c \in Conns |-> IF c = "main" THEN n ELSE 0] :
                      n \in {MAX_SAFE_INTEGER - 1, MAX_SAFE_INTEGER}}
  /\ requestCallbacks = [c \in Conns |-> EmptyMap]
  /\ notificationCallbacks = [c \in Conns |-> EmptyMap]
  /\ resolvers = [c \in Conns |-> IF c = "main" THEN MapSet(EmptyMap, 1, 1) ELSE EmptyMap]
  /\ listening = [c \in Conns |-> TRUE]
  /\ channel = [c \in Conns |-> <<>>]
  /\ running = [c \in Conns |-> {}]
  /\ calls = [c \in Conns |->
       IF c = "main" THEN <<Call("getPet", <<JsLiteral>>, 1, "pending", JsUndefined)>>
       ELSE <<>>]
  /\ tokens = [c \in Conns |-> {}]
  /\ handled = [c \in Conns |-> EmptyMap]
  /\ notifications = 0
  /\ inputs = 0
  /\ last = Step(NoFailure, <<>>)
  /\ fnMap = EmptyMap
  /\ bridged = Bridged(FALSE, NoFunction, <<>>)

WrapSpec == InitWrap /\ [][Next]_vars

\* The life of the id counter: a connection just made, or one whose counter is
\* about to wrap, sending requests that are served (or refused by the channel)
IdInit == Init \/ InitWrap
IdNext ==
  \/ \E c \in Servers, name \in RequestNames : OnRequest(c, name, "echo")
  \/ \E c \in Callers, name \in RequestNames, params \in Params : SendRequest(c, name, params)
  \/ \E c \in Callers : Dispose(c)
  \/ \E c \in Conns : Deliver(c)
  \/ \E c \in Conns, invocation \in Invocations : Complete(c, invocation)
IdSpec == IdInit /\ [][IdNext]_vars

\* Disposal with a handler in flight: the worker serves a request of the main
\* thread, either side disposes its connection and goes on calling it
LateNext ==
  \/ \E c \in Servers : OnRequest(c, "getPet", "echo")
  \/ \E c \in Conns : SendRequest(c, "getPet", <<JsLiteral>>)
  \/ \E c \in Conns : SendNotification(c, "sendEmail", <<JsLiteral>>)
  \/ \E c \in Conns : Dispose(c)
  \/ \E c \in Conns : Deliver(c)
  \/ \E c \in Conns, invocation \in Invocations : Complete(c, invocation)
LateSpec == Init /\ [][LateNext]_vars

\* A connection used through a bridge: createBridge on "main", reads of the
\* bridge and calls of its functions, served by handlers of the worker; handlers
\* registered on "main" before the bridge is created take names it may ask for
BridgeNext ==
  \/ \E c \in Callers, implementation \in Implementations : CreateBridge(c, implementation)
  \/ \E key \in BridgeKeys : Get(key)
  \/ \E c \in Callers, fn \in BridgeFunctions, params \in Params : BridgeCall(c, fn, params)
  \/ \E c \in Conns, name \in RequestNames : OnRequest(c, name, "echo")
  \/ \E c \in Conns : Dispose(c)
  \/ \E c \in Conns : Deliver(c)
  \/ \E c \in Conns, invocation \in Invocations : Complete(c, invocation)

BridgeSpec == Init /\ [][BridgeNext]_vars

----------------------------------------------------------------------------
(* Nested requests: a handler that sends a request back to the requester *)

\* The handler the worker registers for 'callCallback':
\*   () => connection.sendRequest('callback')
CallCallback == "callCallback"
\* The handlers the main thread registers for 'callback' in the tests, and one
\* that throws its (missing) first parameter
CallbackHandlers == {"ok", "throwLiteral", "thrower"}
NoParams == <<>>

\* An invocation of CallCallback awaits the call it made: the awaits-th call of its
\* connection
CallCallbackInvocations ==
  [id : 1..MaxRequests, fn : {CallCallback}, params : {NoParams}, awaits : 1..MaxRequests]
CallbackInvocations == [id : 1..MaxRequests, fn : CallbackHandlers, params : {NoParams}]

\* The dispatch of a Request whose handler is CallCallback.  The handler runs up to
\* its await: sendRequest('callback') allocates an id, stores the resolver and
\* posts the Request (or returns a rejected promise on a disposed connection).
OnMessageCallCallback(c, data) ==
  LET id == (requestId[c] % MAX_SAFE_INTEGER) + 1
      inner == [type |-> REQUEST, id |-> id, name |-> "callback", params |-> NoParams]
      invocation == [id |-> data.id, fn |-> CallCallback, params |-> data.params,
                     awaits |-> Len(calls[c]) + 1]
  IN
  /\ IF CheckDisposed(c) THEN
       /\ calls' = [calls EXCEPT ![c] =
            Append(@, Call("callback", NoParams, 0, "rejected", DisposedError))]
       /\ channel' = [channel EXCEPT ![c] = Tail(@)]
       /\ UNCHANGED <<requestId, resolvers>>
     ELSE
       /\ requestId' = [requestId EXCEPT ![c] = id]
       /\ resolvers' = [resolvers EXCEPT ![c] = MapSet(@, id, Len(calls[c]) + 1)]
       /\ calls' = [calls EXCEPT ![c] =
            Append(@, Call("callback", NoParams, id, "pending", JsUndefined))]
       /\ channel' = Send([channel EXCEPT ![c] = Tail(@)], c, inner)
  /\ running' = [running EXCEPT ![c] = @ \cup {invocation}]
  /\ handled' = [handled EXCEPT ![c] = MapSet(@, data.id, invocation)]
  /\ last' = Step(NoFailure, <<>>)
  /\ UNCHANGED <<disposed, requestCallbacks, notificationCallbacks, listening,
                 tokens, notifications, inputs>>
  /\ UNCHANGED <<fnMap, bridged>>

\* Whether the envelope the channel hands to c next is a Request for CallCallback
ForCallCallback(c) ==
  /\ listening[c]
  /\ channel[c] # <<>>
  /\ Head(channel[c]).type = REQUEST
  /\ Head(channel[c]).name \in DOMAIN requestCallbacks[c]
  /\ requestCallbacks[c][Head(channel[c]).name] = CallCallback

\* #onMessage, with the handlers of this scenario
OnMessage(c) ==
  IF ForCallCallback(c) THEN OnMessageCallCallback(c, Head(channel[c])) ELSE Deliver(c)

\* Mutant: the handler does not await the request it sent.
Resume_Eager(c, invocation) ==
  /\ invocation \in running[c]
  /\ running' = [running EXCEPT ![c] = @ \ {invocation}]
  /\ LET call == calls[c][invocation.awaits]
         outcome == [ok |-> call.state # "rejected", value |-> call.value]
         posted == Responses(invocation.id, outcome)
     IN
     /\ channel' = IF posted = <<>> THEN channel ELSE Send(channel, c, posted[1])
     /\ last' = Step(IF posted = <<>> THEN DataCloneError(JsUndefined) ELSE NoFailure, <<>>)
  /\ UNCHANGED <<disposed, requestId, requestCallbacks, notificationCallbacks, resolvers,
                 listening, calls, tokens, handled, notifications, inputs>>
  /\ UNCHANGED <<fnMap, bridged>>

\* The promise CallCallback awaits has settled: the handler returns what it
\* resolved with, or rejects with what it was rejected with, and the connection
\* posts the Response
Resume(c, invocation) ==
  /\ invocation \in running[c]
  /\ calls[c][invocation.awaits].state # "pending"
  /\ running' = [running EXCEPT ![c] = @ \ {invocation}]
  /\ LET call == calls[c][invocation.awaits]
         outcome == [ok |-> call.state = "resolved", value |-> call.value]
         posted == Responses(invocation.id, outcome)
     IN
     /\ channel' = IF posted = <<>> THEN channel ELSE Send(channel, c, posted[1])
     /\ last' = Step(IF posted = <<>> THEN DataCloneError(JsUndefined) ELSE NoFailure, <<>>)
  /\ UNCHANGED <<disposed, requestId, requestCallbacks, notificationCallbacks, resolvers,
                 listening, calls, tokens, handled, notifications, inputs>>
  /\ UNCHANGED <<fnMap, bridged>>

\* The worker module has run: its connection is made and CallCallback is
\* registered; it keeps no disposable.  The main thread has made its connection.
NestedInit ==
  /\ disposed = [c \in Conns |-> Made(c).disposed]
  /\ requestId = [c \in Conns |-> Made(c).requestId]
  /\ requestCallbacks = [c \in Conns |->
       IF c \in Servers THEN MapSet(Made(c).requestCallbacks, "callCallback", CallCallback)
       ELSE Made(c).requestCallbacks]
  /\ notificationCallbacks = [c \in Conns |-> Made(c).notificationCallbacks]
  /\ resolvers = [c \in Conns |-> Made(c).resolvers]
  /\ listening = [c \in Conns |-> Made(c).listening]
  /\ channel = [c \in Conns |-> <<>>]
  /\ running = [c \in Conns |-> {}]
  /\ calls = [c \in Conns |-> <<>>]
  /\ tokens = [c \in Conns |-> {}]
  /\ handled = [c \in Conns |-> EmptyMap]
  /\ notifications = 0
  /\ inputs = 0
  /\ last = Step(NoFailure, <<>>)
  /\ fnMap = EmptyMap
  /\ bridged = Bridged(FALSE, NoFunction, <<>>)

\* The main thread registers a handler for 'callback' (or none) and requests
\* 'callCallback'; the connections dispatch and the handlers complete
NestedNext ==
  \/ \E c \in Callers, callback \in CallbackHandlers : OnRequest(c, "callback", callback)
  \/ \E c \in Callers : SendRequest(c, "callCallback", NoParams)
  \/ \E c \in Conns : OnMessage(c)
  \/ \E c \in Conns, invocation \in CallbackInvocations : Complete(c, invocation)
  \/ \E c \in Conns, invocation \in CallCallbackInvocations : Resume(c, invocation)

NestedSpec == NestedInit /\ [][NestedNext]_vars

\* Delivery is fair, and a handler that can complete does
NestedFairness ==
  /\ \A c \in Conns : WF_vars(OnMessage(c))
  /\ \A c \in Conns : \A invocation \in CallbackInvocations :
       WF_vars(Complete(c, invocation))
  /\ \A c \in Conns : \A invocation \in CallCallbackInvocations :
       WF_vars(Resume(c, invocation))

NestedFairSpec == NestedSpec /\ NestedFairness

----------------------------------------------------------------------------
(* Responses of the peer's own making *)

\* The worker of test/connection.worker.ts posts whatever message it is asked to.
\* Responses that carry the id of the first request: one with neither result nor
\* error, one with a result, one with an error; and an envelope with that id whose
\* type is none of the three
ForgedMessages ==
  {[type |-> RESPONSE, id |-> 1],
   [type |-> RESPONSE, id |-> 1, result |-> JsLiteral],
   [type |-> RESPONSE, id |-> 1, error |-> JsLiteral],
   [type |-> RESPONSE + 1, id |-> 1]}

\* Invocations of a handler called with a parameter, or with none
ForgedInvocations ==
  [id : 1..MaxRequests, fn : {"echo"}, params : {<<JsLiteral>>, NoParams}]

\* The worker module has run: its connection is made and the handler of 'getPet',
\* which returns from its first parameter, is registered; it keeps no disposable
ForgedInit ==
  /\ disposed = [c \in Conns |-> Made(c).disposed]
  /\ requestId = [c \in Conns |-> Made(c).requestId]
  /\ requestCallbacks = [c \in Conns |->
       IF c \in Servers THEN MapSet(Made(c).requestCallbacks, "getPet", "echo")
       ELSE Made(c).requestCallbacks]
  /\ notificationCallbacks = [c \in Conns |-> Made(c).notificationCallbacks]
  /\ resolvers = [c \in Conns |-> Made(c).resolvers]
  /\ listening = [c \in Conns |-> Made(c).listening]
  /\ channel = [c \in Conns |-> <<>>]
  /\ running = [c \in Conns |-> {}]
  /\ calls = [c \in Conns |-> <<>>]
  /\ tokens = [c \in Conns |-> {}]
  /\ handled = [c \in Conns |-> EmptyMap]
  /\ notifications = 0
  /\ inputs = 0
  /\ last = Step(NoFailure, <<>>)
  /\ fnMap = EmptyMap
  /\ bridged = Bridged(FALSE, NoFunction, <<>>)

\* The main thread sends requests, with a parameter (one the channel carries, or
\* one it refuses) or without; the worker serves them and posts messages of its own
ForgedNext ==
  \/ \E c \in Callers, params \in {<<JsLiteral>>, <<JsSymbol>>, NoParams} :
       SendRequest(c, "getPet", params)
  \/ \E c \in Servers, message \in ForgedMessages : PostMessage(c, message)
  \/ \E c \in Conns : Deliver(c)
  \/ \E c \in Conns, invocation \in ForgedInvocations : Complete(c, invocation)

ForgedSpec == ForgedInit /\ [][ForgedNext]_vars

ForgedFairness ==
  /\ \A c \in Conns : WF_vars(Deliver(c))
  /\ \A c \in Conns : \A invocation \in ForgedInvocations : WF_vars(Complete(c, invocation))

ForgedFairSpec == ForgedSpec /\ ForgedFairness

----------------------------------------------------------------------------
(* Listeners that change the listener set they are called from *)

\* How many listeners one dispatch is followed through
MaxIterations == 4

\* "registrar" registers "listener" under the name of the notification it
\* receives; "disposer" disposes the token of the registration of "listener";
\* "spawner" registers a new function that does as itself, and so does every
\* function it has made
LiveListeners == {"listener", "registrar", "disposer", "spawner"}
Spawned(n) == "spawned" \o ToString(n)
Spawns(fn) == fn \notin {"listener", "registrar", "disposer"}

\* The Set of listeners after fn has run: Set.prototype.add by onNotification,
\* Set.prototype.delete by the token
AfterListener(fn, callbacks) ==
  IF fn = "registrar" THEN SetAdd(callbacks, "listener")
  ELSE IF fn = "disposer" THEN SetDelete(callbacks, "listener")
  ELSE IF Spawns(fn)
    THEN Append(callbacks,
                Spawned(Cardinality({i \in 1..Len(callbacks) : Spawns(callbacks[i])})))
  ELSE callbacks

\* Mutant: the loop runs over a copy of the Set taken when it starts.
RECURSIVE AfterListeners(_, _)
AfterListeners(fns, callbacks) ==
  IF fns = <<>> THEN callbacks
  ELSE AfterListeners(Tail(fns), AfterListener(Head(fns), callbacks))
Iterate_Snapshot(callbacks, visited, invoked, params, fuel) ==
  [done |-> TRUE,
   callbacks |-> AfterListeners(callbacks, callbacks),
   invoked |-> [i \in 1..Len(callbacks) |-> [fn |-> callbacks[i], params |-> params]]]

\* for (const callback of callbacks) callback?.(...params)
\* The iterator of a Set follows the Set: it reaches the entries added while it
\* runs, and passes over those deleted before it reached them.  `visited` is the
\* number of entries of callbacks the iterator is past; the loop is followed for
\* fuel invocations, and `done` tells whether it has ended by then.
RECURSIVE Iterate(_, _, _, _, _)
Iterate(callbacks, visited, invoked, params, fuel) ==
  IF visited >= Len(callbacks)
  THEN [done |-> TRUE, callbacks |-> callbacks, invoked |-> invoked]
  ELSE IF fuel = 0
  THEN [done |-> FALSE, callbacks |-> callbacks, invoked |-> invoked]
  ELSE LET fn == callbacks[visited + 1]
           after == AfterListener(fn, callbacks)
           deleted == {i \in 1..(visited + 1) : callbacks[i] = "listener" /\ fn = "disposer"}
       IN Iterate(after, visited + 1 - Cardinality(deleted),
                  Append(invoked, [fn |-> fn, params |-> params]), params, fuel - 1)

\* The message event of c, with listeners of this kind
OnMessageLive(c) ==
  /\ channel[c] # <<>>
  /\ IF /\ listening[c]
        /\ Head(channel[c]).type = NOTIFICATION
        /\ Head(channel[c]).name \in DOMAIN notificationCallbacks[c]
     THEN LET data == Head(channel[c])
              run == Iterate(notificationCallbacks[c][data.name], 0, <<>>, data.params,
                             MaxIterations)
          IN /\ run.done
             /\ channel' = [channel EXCEPT ![c] = Tail(@)]
             /\ notificationCallbacks' =
                  [notificationCallbacks EXCEPT ![c][data.name] = run.callbacks]
             /\ last' = Step(NoFailure, run.invoked)
             /\ UNCHANGED <<disposed, requestId, requestCallbacks, resolvers, listening,
                            running, calls, tokens, handled, notifications, inputs>>
             /\ UNCHANGED <<fnMap, bridged>>
     ELSE Deliver(c)

\* The worker registers listeners of these kinds for 'sendEmail' and the main
\* thread sends the notification
LiveNext ==
  \/ \E c \in Servers, callback \in LiveListeners : OnNotification(c, "sendEmail", callback)
  \/ \E c \in Callers, params \in Params : SendNotification(c, "sendEmail", params)
  \/ \E c \in Conns : OnMessageLive(c)

LiveSpec == Init /\ [][LiveNext]_vars

----------------------------------------------------------------------------
(* A connection made by invert and one made by the constructor, driven alike *)

\* Each thread holds one end of the channel: the main thread's connection comes
\* from Connection.invert, the worker's from the constructor (Made).  Both
\* modules have run the same registrations, keeping no disposable: a handler for
\* 'getPet' or none, a listener for 'sendEmail' or none.
InvertInit ==
  \E callback \in {NoHandler, "echo", "thrower"}, listener \in {NoHandler, "listener"} :
    /\ disposed = [c \in Conns |-> Made(c).disposed]
    /\ requestId = [c \in Conns |-> Made(c).requestId]
    /\ requestCallbacks = [c \in Conns |->
         IF callback = NoHandler THEN Made(c).requestCallbacks
         ELSE MapSet(Made(c).requestCallbacks, "getPet", callback)]
    /\ notificationCallbacks = [c \in Conns |->
         IF listener = NoHandler THEN Made(c).notificationCallbacks
         ELSE MapSet(Made(c).notificationCallbacks, "sendEmail", <<listener>>)]
    /\ resolvers = [c \in Conns |-> Made(c).resolvers]
    /\ listening = [c \in Conns |-> Made(c).listening]
    /\ channel = [c \in Conns |-> <<>>]
    /\ running = [c \in Conns |-> {}]
    /\ calls = [c \in Conns |-> <<>>]
    /\ tokens = [c \in Conns |-> {}]
    /\ handled = [c \in Conns |-> EmptyMap]
    /\ notifications = 0
    /\ inputs = 0
    /\ last = Step(NoFailure, <<>>)
    /\ fnMap = EmptyMap
    /\ bridged = Bridged(FALSE, NoFunction, <<>>)

\* The messages either thread posts without its connection: those of the peer's
\* own making, and a Notification
InvertMessages ==
  ForgedMessages
    \cup {[type |-> NOTIFICATION, name |-> "sendEmail", params |-> <<JsLiteral>>]}

\* The two connections are in the same state, have received the same envelopes
\* and have had the same envelopes posted to their ends of the channel, and every
\* call made on the one has been made on the other.
Alike ==
  /\ disposed["main"] = disposed["worker"]
  /\ requestId["main"] = requestId["worker"]
  /\ requestCallbacks["main"] = requestCallbacks["worker"]
  /\ notificationCallbacks["main"] = notificationCallbacks["worker"]
  /\ resolvers["main"] = resolvers["worker"]
  /\ listening["main"] = listening["worker"]
  /\ channel["main"] = channel["worker"]
  /\ running["main"] = running["worker"]
  /\ calls["main"] = calls["worker"]
  /\ tokens["main"] = tokens["worker"]
  /\ handled["main"] = handled["worker"]
  /\ inputs % 2 = 0

\* The main thread goes first, when the bounds leave room for the call and for
\* the same call of the worker
Leads ==
  /\ Alike
  /\ inputs + 1 < MaxInputs
  /\ Requests + 1 < MaxRequests
  /\ Registrations + 1 < MaxRegistrations

\* The worker has repeated what the main thread did: the connections are alike
\* again, and the step reported what the main thread's step reported.
Follows == ~Alike /\ Alike' /\ last' = last

\* Every call and every message event happens to the inverted connection first
\* and to the constructed one next.
InvertNext ==
  \/ \E name \in RequestNames, callback \in {"echo"} :
       \/ Leads /\ OnRequest("main", name, callback)
       \/ OnRequest("worker", name, callback) /\ Follows
  \/ \E name \in NotificationNames, callback \in Listeners :
       \/ Leads /\ OnNotification("main", name, callback)
       \/ OnNotification("worker", name, callback) /\ Follows
  \/ \E name \in RequestNames, params \in Params :
       \/ Leads /\ SendRequest("main", name, params)
       \/ SendRequest("worker", name, params) /\ Follows
  \/ \E name \in NotificationNames, params \in Params :
       \/ /\ Leads
          /\ (~disposed["main"] /\ Clonable(params[1]))
               => notifications + 1 < MaxNotifications
          /\ SendNotification("main", name, params)
       \/ SendNotification("worker", name, params) /\ Follows
  \/ \E message \in InvertMessages :
       \/ Leads /\ PostMessage("main", message)
       \/ PostMessage("worker", message) /\ Follows
  \/ \E token \in Tokens :
       \/ Alike /\ DisposeToken("main", token)
       \/ DisposeToken("worker", token) /\ Follows
  \/ Alike /\ Dispose("main")
  \/ Dispose("worker") /\ Follows
  \/ Alike /\ Deliver("main")
  \/ Deliver("worker") /\ Follows
  \/ \E invocation \in Invocations :
       \/ Alike /\ Complete("main", invocation)
       \/ Complete("worker", invocation) /\ Follows

InvertSpec == InvertInit /\ [][InvertNext]_vars

----------------------------------------------------------------------------
(* Properties *)

\* What the peer's #onMessage did with the Request of a call
Dispatched(c, call) == call.id \in DOMAIN handled[Peer(c)]
DispatchOf(c, call) == handled[Peer(c)][call.id]
OutcomeOf(c, call) == HandlerOutcome(DispatchOf(c, call).fn, DispatchOf(c, call).params)

\* The envelope the channel is about to hand to c
Inbound(c, type) ==
  /\ listening[c]
  /\ channel[c] # <<>>
  /\ Head(channel[c]).type = type

\* C2: whatever value v a registered handler throws or rejects with (falsy values
\* included), the caller's sendRequest is rejected, with v, and never resolved.
\* Stated for the values the channel can carry.
C2_ThrownValueRejects ==
  \A c \in Conns : \A k \in 1..Len(calls[c]) :
    LET call == calls[c][k] IN
    (/\ call.state # "pending"
     /\ Dispatched(c, call)
     /\ DispatchOf(c, call).fn \in Handlers
     /\ ~OutcomeOf(c, call).ok
     /\ Clonable(OutcomeOf(c, call).value))
    => (call.state = "rejected" /\ call.value = OutcomeOf(c, call).value)

\* C3: a Request dispatched while no handler is registered under its name invokes
\* no handler and posts exactly one Response, whose error is the 'request not
\* implemented' failure with the name as its cause; the caller's sendRequest is
\* rejected with that failure.
C3_NotImplemented ==
  /\ [][\A c \in Conns :
          (/\ Inbound(c, REQUEST)
           /\ Head(channel[c]).name \notin DOMAIN requestCallbacks[c]
           /\ Deliver(c))
          => /\ running' = running
             /\ last'.invoked = <<>>
             /\ channel'[Peer(c)] = Append(channel[Peer(c)],
                  [type |-> RESPONSE, id |-> Head(channel[c]).id,
                   error |-> NotImplementedError(Head(channel[c]).name)])]_vars
  /\ [](\A c \in Conns : \A k \in 1..Len(calls[c]) :
          LET call == calls[c][k] IN
          (/\ call.state # "pending"
           /\ Dispatched(c, call)
           /\ DispatchOf(c, call).fn = NoHandler)
          => (call.state = "rejected" /\ call.value = NotImplementedError(call.name)))

C3_Witness ==
  \E c \in Conns : \E k \in 1..Len(calls[c]) :
    /\ calls[c][k].state = "rejected"
    /\ Dispatched(c, calls[c][k])
    /\ DispatchOf(c, calls[c][k]).fn = NoHandler
    /\ calls[c][k].value = NotImplementedError(calls[c][k].name)

\* The public operations, whatever their arguments
OnRequestCall(c) ==
  \E name \in RequestNames, callback \in Handlers : OnRequest(c, name, callback)
OnNotificationCall(c) ==
  \E name \in NotificationNames, callback \in Listeners : OnNotification(c, name, callback)
SendRequestCall(c) ==
  \E name \in RequestNames, params \in Params : SendRequest(c, name, params)
SendNotificationCall(c) ==
  \E name \in NotificationNames, params \in Params : SendNotification(c, name, params)

\* C4: once a connection is disposed it stays disposed, and every onRequest,
\* onNotification and sendNotification on it throws the Disposed failure, while
\* sendRequest returns a promise already rejected with it.
C4_DisposedOperationsFail ==
  /\ [][\A c \in Conns : disposed[c] => disposed'[c]]_vars
  /\ [][\A c \in Conns :
          disposed[c] =>
            /\ (OnRequestCall(c) \/ OnNotificationCall(c) \/ SendNotificationCall(c))
                 => last'.failure = DisposedError
            /\ SendRequestCall(c)
                 => /\ Len(calls'[c]) = Len(calls[c]) + 1
                    /\ calls'[c][Len(calls'[c])].state = "rejected"
                    /\ calls'[c][Len(calls'[c])].value = DisposedError]_vars

C4_Witness ==
  /\ disposed["main"]
  /\ disposed["worker"]
  /\ last.failure = DisposedError
  /\ calls["main"] # <<>>
  /\ calls["main"][Len(calls["main"])].value = DisposedError

\* C5: an operation on a disposed connection has no effect: it posts no envelope,
\* allocates no request id, adds no pending resolver, and registers no handler and
\* no listener.
C5_DisposedOperationsHaveNoEffect ==
  [][\A c \in Conns :
       (/\ disposed[c]
        /\ \/ OnRequestCall(c)
           \/ OnNotificationCall(c)
           \/ SendRequestCall(c)
           \/ SendNotificationCall(c))
       => UNCHANGED <<channel, requestId, resolvers, requestCallbacks,
                      notificationCallbacks, tokens, running>>]_vars

\* A sendRequest on a disposed connection that had allocated ids before
C5_Witness ==
  \E c \in Conns :
    /\ disposed[c]
    /\ Len(calls[c]) = 2
    /\ calls[c][2].value = DisposedError
    /\ requestId[c] = 1
    /\ DOMAIN resolvers[c] = {1}

\* C6 as claimed: when the Response of a request that is still pending arrives
\* after the requesting connection was disposed, the request is settled with it.
C6_LateResponseSettles ==
  [][\A c \in Conns :
       (/\ disposed[c]
        /\ channel[c] # <<>>
        /\ Head(channel[c]).type = RESPONSE
        /\ Head(channel[c]).id \in DOMAIN resolvers[c]
        /\ Deliver(c))
       => calls'[c][resolvers[c][Head(channel[c]).id]].state # "pending"]_vars

\* C6 as amended: a disposed connection no longer listens to its channel, so no
\* request of it is settled after dispose(): every Response that arrives later is
\* discarded, and the pending requests and their resolvers stay as they are.
C6_DisposedNeverSettles ==
  /\ [](\A c \in Conns : disposed[c] => ~listening[c])
  /\ [][\A c \in Conns :
          disposed[c] =>
            /\ resolvers'[c] = resolvers[c]
            /\ \A k \in 1..Len(calls[c]) : calls'[c][k] = calls[c][k]]_vars

\* A Response was discarded by a disposed connection whose request it answers:
\* the peer handled the Request, its Response is no longer in flight, and the
\* request is still pending.
C6_Witness ==
  \E c \in Conns : \E k \in 1..Len(calls[c]) :
    /\ disposed[c]
    /\ calls[c][k].state = "pending"
    /\ calls[c][k].id \in DOMAIN resolvers[c]
    /\ Dispatched(c, calls[c][k])
    /\ \A invocation \in running[Peer(c)] : invocation.id # calls[c][k].id
    /\ \A i \in 1..Len(channel[c]) : channel[c][i].id # calls[c][k].id

\* C7: onRequest under a name that already has a handler throws AlreadyRegistered
\* and changes no table; the handler registered first stays, and it is the one a
\* later Request of that name is dispatched to.
C7_DuplicateRegistrationRejected ==
  /\ [][\A c \in Conns, name \in RequestNames, callback \in Handlers :
          (/\ ~disposed[c]
           /\ name \in DOMAIN requestCallbacks[c]
           /\ OnRequest(c, name, callback))
          => /\ last'.failure = AlreadyRegisteredError(name)
             /\ requestCallbacks' = requestCallbacks
             /\ tokens' = tokens]_vars
  /\ [][\A c \in Conns :
          (/\ Inbound(c, REQUEST)
           /\ Head(channel[c]).name \in DOMAIN requestCallbacks[c]
           /\ Deliver(c))
          => LET data == Head(channel[c])
                 invocation == [id |-> data.id, fn |-> requestCallbacks[c][data.name],
                                params |-> data.params]
             IN /\ running'[c] = running[c] \cup {invocation}
                /\ handled'[c][data.id] = invocation]_vars

C7_Witness ==
  \E c \in Conns, name \in RequestNames :
    /\ last = Step(AlreadyRegisteredError(name), <<>>)
    /\ name \in DOMAIN requestCallbacks[c]
    /\ requestCallbacks[c][name] = "echo"
    /\ [kind |-> "request", name |-> name, fn |-> "thrower"] \notin tokens[c]

\* C8 as claimed: disposing the token of a registration that is no longer in place
\* is a no-op, even when another handler has been registered under the name since.
C8_StaleTokenIsNoOp ==
  [][\A c \in Conns : \A token \in tokens[c] :
       (/\ token.kind = "request"
        /\ token.name \in DOMAIN requestCallbacks[c]
        /\ requestCallbacks[c][token.name] # token.fn
        /\ DisposeToken(c, token))
       => requestCallbacks' = requestCallbacks]_vars

\* The listeners of a Set other than the one a token removes
OtherListeners(callbacks, name, token) ==
  IF name = token.name THEN SelectSeq(callbacks, LAMBDA fn : fn # token.fn) ELSE callbacks

\* C9: disposing the token of one notification listener changes no request
\* handler, no listener under another name and no other listener under the same
\* name, and every one of them that a Notification would have invoked before is
\* still invoked by it afterwards.
C9_TokenDisposalFrame ==
  [][\A c \in Conns : \A token \in tokens[c] :
       (token.kind = "notification" /\ DisposeToken(c, token))
       => /\ requestCallbacks' = requestCallbacks
          /\ notificationCallbacks'[Peer(c)] = notificationCallbacks[Peer(c)]
          /\ DOMAIN notificationCallbacks'[c] = DOMAIN notificationCallbacks[c]
          /\ \A name \in DOMAIN notificationCallbacks[c] :
               LET before == notificationCallbacks[c][name]
                   after == notificationCallbacks'[c][name]
               IN /\ OtherListeners(after, name, token) = OtherListeners(before, name, token)
                  /\ \A params \in Params :
                       \A i \in 1..Len(Invoked(before, params)) :
                         LET invocation == Invoked(before, params)[i] IN
                         (name # token.name \/ invocation.fn # token.fn)
                           => InSeq(Invoked(after, params), invocation)]_vars

C9_Witness ==
  \E c \in Conns : \E token \in tokens[c] :
    /\ token.kind = "notification"
    /\ token.name \in DOMAIN notificationCallbacks[c]
    /\ ~InSeq(notificationCallbacks[c][token.name], token.fn)
    /\ notificationCallbacks[c][token.name] # <<>>
    /\ requestCallbacks[c] # EmptyMap

\* C10 as claimed: a Notification received for a name invokes every listener
\* registered under the name exactly once with its params (no listener when there
\* is none), posts no envelope, and leaves the pending requests and the id counter
\* as they are.
C10_NotificationInvokesAll ==
  [][\A c \in Conns :
       (Inbound(c, NOTIFICATION) /\ Deliver(c))
       => LET data == Head(channel[c])
              callbacks == IF data.name \in DOMAIN notificationCallbacks[c]
                           THEN notificationCallbacks[c][data.name] ELSE <<>>
          IN /\ Len(last'.invoked) = Len(callbacks)
             /\ \A i \in 1..Len(callbacks) :
                  InSeq(last'.invoked, [fn |-> callbacks[i], params |-> data.params])
             /\ channel'[Peer(c)] = channel[Peer(c)]
             /\ resolvers' = resolvers
             /\ requestId' = requestId
             /\ calls' = calls]_vars

\* C1: between two connections that stay undisposed, a request whose name has a
\* handler when it is dispatched, and whose handler returns a value the channel
\* can carry, is eventually resolved, and is settled in no other way than resolved
\* with the value that handler returned for the request's own params.
RoundTrip(c, call) ==
  /\ Dispatched(c, call)
  /\ DispatchOf(c, call).fn \in Handlers
  /\ OutcomeOf(c, call).ok
  /\ Clonable(OutcomeOf(c, call).value)

C1_RequestRoundTrip ==
  /\ [](\A c \in Conns : \A k \in 1..Len(calls[c]) :
          LET call == calls[c][k] IN
          (call.state # "pending" /\ RoundTrip(c, call))
            => /\ call.state = "resolved"
               /\ call.value = OutcomeOf(c, call).value
               /\ DispatchOf(c, call).params = call.params)
  /\ \A c \in Conns : \A k \in 1..MaxRequests :
       (k <= Len(calls[c]) /\ RoundTrip(c, calls[c][k]))
         ~> \/ (k <= Len(calls[c]) /\ calls[c][k].state = "resolved")
            \/ disposed[c]
            \/ disposed[Peer(c)]

\* Two requests of one connection, both resolved, each with its own value
C1_Witness ==
  \E c \in Conns :
    /\ Len(calls[c]) = 2
    /\ \A k \in 1..2 :
         /\ calls[c][k].state = "resolved"
         /\ RoundTrip(c, calls[c][k])
         /\ calls[c][k].value = calls[c][k].params[1]
    /\ calls[c][1].value # calls[c][2].value
    /\ ~disposed[c]
    /\ ~disposed[Peer(c)]

\* C11 as claimed: when a listener registered under a name throws while a
\* Notification of that name is dispatched, every other listener under the name is
\* still invoked, and the dispatch step itself reports no failure.
C11_ListenerIsolation ==
  [][\A c \in Conns :
       (/\ Inbound(c, NOTIFICATION)
        /\ Head(channel[c]).name \in DOMAIN notificationCallbacks[c]
        /\ FirstThrowing(notificationCallbacks[c][Head(channel[c]).name]) # 0
        /\ Deliver(c))
       => LET data == Head(channel[c])
              callbacks == notificationCallbacks[c][data.name]
          IN /\ \A i \in 1..Len(callbacks) :
                  InSeq(last'.invoked, [fn |-> callbacks[i], params |-> data.params])
             /\ last'.failure = NoFailure]_vars

\* C12: a Response whose id has no pending request is reported as the unhandled
\* failure 'Missing callback for response ID <id>'; it settles no request and
\* leaves the pending requests and both tables of handlers as they are.
C12_OrphanedResponse ==
  [][\A c \in Conns :
       (/\ Inbound(c, RESPONSE)
        /\ Head(channel[c]).id \notin DOMAIN resolvers[c]
        /\ Deliver(c))
       => /\ last'.failure = MissingCallbackError(Head(channel[c]).id)
          /\ UNCHANGED <<resolvers, calls, requestCallbacks, notificationCallbacks>>]_vars

\* An orphaned Response was reported while a request of the connection is pending
C12_Witness ==
  \E c \in Conns :
    /\ last.failure = MissingCallbackError(StrayId)
    /\ DOMAIN resolvers[c] # {}
    /\ \E k \in 1..Len(calls[c]) : calls[c][k].state = "pending"

\* Two calls of a connection that are both outstanding
Outstanding(c, k) == k \in 1..Len(calls[c]) /\ calls[c][k].state = "pending"

\* C13 as claimed: no two outstanding requests of a connection carry the same id,
\* and allocating an id never overwrites the resolver of an outstanding request.
C13_IdsUnique ==
  /\ [](\A c \in Conns : \A k, l \in 1..Len(calls[c]) :
          (k # l /\ Outstanding(c, k) /\ Outstanding(c, l))
            => calls[c][k].id # calls[c][l].id)
  /\ [][\A c \in Conns :
          SendRequestCall(c) =>
            \A id \in DOMAIN resolvers[c] :
              /\ id \in DOMAIN resolvers'[c]
              /\ resolvers'[c][id] = resolvers[c][id]]_vars

\* C13 as amended: the id allocated is the one after the counter, or 1 once the
\* counter has reached MAX_SAFE_INTEGER.  Allocation leaves every other resolver in
\* place, and it overwrites a resolver only in that wrap-around, when the request
\* of id 1 is still outstanding: then both requests carry id 1, the resolver is
\* the newer request's, and the older one can no longer be settled.
C13_IdsUniqueUntilWrap ==
  /\ [][\A c \in Conns :
          (SendRequestCall(c) /\ ~disposed[c]) =>
            /\ requestId'[c] \in DOMAIN resolvers[c] => requestId[c] = MAX_SAFE_INTEGER
            /\ resolvers'[c][requestId'[c]] = Len(calls'[c])
            /\ \A id \in DOMAIN resolvers[c] \ {requestId'[c]} :
                 /\ id \in DOMAIN resolvers'[c]
                 /\ resolvers'[c][id] = resolvers[c][id]]_vars
  /\ [](\A c \in Conns : \A k, l \in 1..Len(calls[c]) :
          (k < l /\ Outstanding(c, k) /\ Outstanding(c, l) /\ calls[c][k].id = calls[c][l].id)
            => /\ calls[c][k].id = 1
               /\ calls[c][k].id \in DOMAIN resolvers[c] => resolvers[c][calls[c][k].id] # k)

\* The counter has wrapped while the request of id 1 was outstanding: two
\* outstanding requests carry id 1
C13_Witness ==
  \E c \in Conns :
    /\ requestId[c] = 1
    /\ Len(calls[c]) = 2
    /\ Outstanding(c, 1) /\ Outstanding(c, 2)
    /\ calls[c][1].id = 1 /\ calls[c][2].id = 1
    /\ resolvers[c][1] = 2

\* The Responses of one id in flight to c, and the invocations of that id its peer awaits
ResponsesInFlight(c, id) ==
  Cardinality({i \in 1..Len(channel[c]) :
                 channel[c][i].type = RESPONSE /\ channel[c][i].id = id})
Awaited(c, id) == Cardinality({invocation \in running[c] : invocation.id = id})

\* C14: a Request dispatched to a registered handler is answered.  Dispatch posts
\* nothing and does not fail; when the handler returns, throws or rejects, the
\* connection posts exactly one Response with the Request's id, carrying the result
\* of a handler that returned and the error of one that failed, and does not fail;
\* no Request is answered twice, and every handler invoked is eventually answered.
C14_HandledRequestAnswered ==
  /\ [][\A c \in Conns :
          (/\ Inbound(c, REQUEST)
           /\ Head(channel[c]).name \in DOMAIN requestCallbacks[c]
           /\ Deliver(c))
          => /\ channel'[Peer(c)] = channel[Peer(c)]
             /\ Cardinality({invocation \in running'[c] :
                               invocation.id = Head(channel[c]).id}) = 1
             /\ last'.failure = NoFailure]_vars
  /\ [][\A c \in Conns : \A invocation \in running[c] :
          Complete(c, invocation) =>
            LET outcome == HandlerOutcome(invocation.fn, invocation.params)
                posted == channel'[Peer(c)]
                data == posted[Len(posted)]
            IN /\ Len(posted) = Len(channel[Peer(c)]) + 1
               /\ SubSeq(posted, 1, Len(posted) - 1) = channel[Peer(c)]
               /\ data.type = RESPONSE
               /\ data.id = invocation.id
               /\ (outcome.ok /\ Clonable(outcome.value))
                    => data = [type |-> RESPONSE, id |-> invocation.id,
                               result |-> outcome.value]
               /\ (~outcome.ok /\ Clonable(outcome.value))
                    => data = [type |-> RESPONSE, id |-> invocation.id,
                               error |-> outcome.value]
               /\ ~Clonable(outcome.value) => "error" \in DOMAIN data
               /\ invocation \notin running'[c]
               /\ last'.failure = NoFailure]_vars
  /\ [](\A c \in Conns : \A id \in RequestIds :
          ResponsesInFlight(c, id) + Awaited(Peer(c), id) <= 1)
  /\ \A c \in Conns : \A id \in RequestIds :
       (Awaited(c, id) = 1) ~> (Awaited(c, id) = 0)

\* A request whose handler threw has been answered with what it threw
C14_Witness ==
  \E c \in Conns : \E k \in 1..Len(calls[c]) :
    /\ calls[c][k].state = "rejected"
    /\ Dispatched(c, calls[c][k])
    /\ DispatchOf(c, calls[c][k]).fn = "thrower"
    /\ calls[c][k].value = JsLiteral
    /\ running[Peer(c)] = {}

\* C15: when the handler returns, or throws, a value the channel refuses to post,
\* the responder posts a Response whose error is the channel's failure to post it,
\* and the requester's sendRequest is rejected with that failure.
C15_UnclonableOutcomeAnswered ==
  /\ [][\A c \in Conns : \A invocation \in running[c] :
          LET outcome == HandlerOutcome(invocation.fn, invocation.params) IN
          (Complete(c, invocation) /\ ~Clonable(outcome.value))
            => channel'[Peer(c)] = Append(channel[Peer(c)],
                 [type |-> RESPONSE, id |-> invocation.id,
                  error |-> DataCloneError(outcome.value)])]_vars
  /\ [](\A c \in Conns : \A k \in 1..Len(calls[c]) :
          LET call == calls[c][k] IN
          (/\ call.state # "pending"
           /\ Dispatched(c, call)
           /\ DispatchOf(c, call).fn \in Handlers
           /\ ~Clonable(OutcomeOf(c, call).value))
          => /\ call.state = "rejected"
             /\ call.value = DataCloneError(OutcomeOf(c, call).value))

\* A request whose handler threw a Symbol has been rejected with the clone failure
C15_Witness ==
  \E c \in Conns : \E k \in 1..Len(calls[c]) :
    /\ calls[c][k].state = "rejected"
    /\ Dispatched(c, calls[c][k])
    /\ DispatchOf(c, calls[c][k]).fn = "throwUnclonable"
    /\ calls[c][k].value = DataCloneError(JsSymbol)

\* The envelope the nested try/catch hands to #send first
FirstResponse(id, outcome) ==
  IF outcome.ok THEN [type |-> RESPONSE, id |-> id, result |-> outcome.value]
  ELSE [type |-> RESPONSE, id |-> id, error |-> outcome.value]

\* C16 as claimed: when the channel refuses the Response of a handled Request, the
\* failure is reported nowhere and no further envelope is posted for the Request.
C16_ResponsePostFailureDropped ==
  [][\A c \in Conns : \A invocation \in running[c] :
       LET outcome == HandlerOutcome(invocation.fn, invocation.params) IN
       (Complete(c, invocation) /\ ~EnvelopeClonable(FirstResponse(invocation.id, outcome)))
         => /\ channel' = channel
            /\ last'.failure = NoFailure]_vars

\* C16 as amended: when the channel refuses the Response of a handled Request, the
\* failure is caught and posted to the requester as the error of one further
\* Response with the Request's id and no result; the step itself does not fail,
\* and the invocation is over.
C16_ResponsePostFailureReported ==
  [][\A c \in Conns : \A invocation \in running[c] :
       LET outcome == HandlerOutcome(invocation.fn, invocation.params)
           refused == FirstResponse(invocation.id, outcome)
       IN
       (Complete(c, invocation) /\ ~EnvelopeClonable(refused))
         => LET posted == channel'[Peer(c)]
                data == posted[Len(posted)]
            IN /\ Len(posted) = Len(channel[Peer(c)]) + 1
               /\ DOMAIN data = {"type", "id", "error"}
               /\ data.type = RESPONSE
               /\ data.id = refused.id
               /\ data.error = DataCloneError(outcome.value)
               /\ channel'[c] = channel[c]
               /\ running'[c] = running[c] \ {invocation}
               /\ last'.failure = NoFailure]_vars

\* The failure to post a handler's result is in flight to the requester
C16_Witness ==
  \E c \in Conns : \E i \in 1..Len(channel[c]) :
    LET data == channel[c][i] IN
    /\ data.type = RESPONSE
    /\ data.id \in DOMAIN handled[Peer(c)]
    /\ handled[Peer(c)][data.id].fn = "unclonable"
    /\ Field(data, "error") = DataCloneError(JsSymbol)

\* C17: a pending request is settled by nothing but the receipt of a Response that
\* carries its id.  Every other step (dispose, the disposal of a registration, an
\* inbound Notification or Request, the Response of another request, any public
\* operation) leaves the request pending and its resolver in place.
C17_SettledOnlyByResponse ==
  /\ [](\A c \in Conns : \A k \in 1..Len(calls[c]) :
          calls[c][k].state = "pending"
            => /\ calls[c][k].id \in DOMAIN resolvers[c]
               /\ resolvers[c][calls[c][k].id] = k)
  /\ [][\A c \in Conns : \A k \in 1..Len(calls[c]) :
          LET id == calls[c][k].id IN
          (/\ calls[c][k].state = "pending"
           /\ id \in DOMAIN resolvers[c]
           /\ \/ calls'[c][k] # calls[c][k]
              \/ id \notin DOMAIN resolvers'[c]
              \/ resolvers'[c][id] # resolvers[c][id])
          => /\ Inbound(c, RESPONSE)
             /\ Head(channel[c]).id = id
             /\ Deliver(c)]_vars

\* A request is still pending on a disposed connection, after the Response of a
\* later request has settled that one
C17_Witness ==
  \E c \in Conns :
    /\ disposed[c]
    /\ Len(calls[c]) = 2
    /\ calls[c][1].state = "pending"
    /\ calls[c][1].id \in DOMAIN resolvers[c]
    /\ calls[c][2].state = "resolved"
    /\ calls[c][2].id \notin DOMAIN resolvers[c]

\* C18: dispose() on a connection that is already disposed changes nothing of its
\* state (disposed flag, both tables of handlers, pending requests, id counter,
\* channel subscription), posts nothing, and raises no failure.
C18_DisposeIdempotent ==
  [][\A c \in Conns :
       (disposed[c] /\ Dispose(c))
         => /\ UNCHANGED <<disposed, requestCallbacks, notificationCallbacks, resolvers,
                           requestId, listening, channel, calls, running>>
            /\ last'.failure = NoFailure]_vars

\* Both connections are disposed, one with a pending request and an allocated id,
\* the other after registrations that its dispose cleared
C18_Witness ==
  \E c \in Conns :
    /\ disposed[c]
    /\ disposed[Peer(c)]
    /\ ~listening[c]
    /\ DOMAIN resolvers[c] # {}
    /\ requestId[c] # 0
    /\ tokens[Peer(c)] # {}
    /\ requestCallbacks[Peer(c)] = EmptyMap
    /\ notificationCallbacks[Peer(c)] = EmptyMap

\* C19: reading a string key X of the bridge yields a function, the same one at
\* every read of X and another one than for any other key, and performs no
\* sendRequest; reading a symbol key yields no function and changes nothing.  The
\* function of a name is never replaced.  Calling the function read under X with
\* params performs exactly one sendRequest(X, ...params) on the connection and
\* returns its promise.
C19_BridgeForwarding ==
  /\ [][\A key \in BridgeKeys :
          Get(key) =>
            /\ UNCHANGED <<calls, channel, requestId, resolvers, inputs>>
            /\ key.type = "symbol" => (bridged'.returned = NoFunction /\ fnMap' = fnMap)
            /\ key.type = "string" =>
                 /\ bridged'.returned # NoFunction
                 /\ fnMap'[key.name] = bridged'.returned
                 /\ key.name \in DOMAIN fnMap => bridged'.returned = fnMap[key.name]
                 /\ \A name \in DOMAIN fnMap \ {key.name} :
                      fnMap[name] # bridged'.returned]_vars
  /\ [][\A name \in DOMAIN fnMap :
          name \in DOMAIN fnMap' /\ fnMap'[name] = fnMap[name]]_vars
  /\ [][\A c \in Callers, name \in RequestNames, params \in Params :
          (name \in DOMAIN fnMap /\ BridgeCall(c, fnMap[name], params))
            => LET promise == calls'[c][Len(calls'[c])] IN
               /\ Len(calls'[c]) = Len(calls[c]) + 1
               /\ promise.name = name
               /\ promise.params = params
               /\ promise.state = "pending"
                    => channel'[Peer(c)] = Append(channel[Peer(c)],
                         [type |-> REQUEST, id |-> promise.id, name |-> name,
                          params |-> params])
               /\ promise.state # "pending" => channel' = channel
               /\ fnMap' = fnMap]_vars

\* Both names have been read, a symbol key was read last, and a request made
\* through the bridge has been resolved
C19_Witness ==
  /\ bridged.created
  /\ DOMAIN fnMap = RequestNames
  /\ fnMap["getPet"] # fnMap["callback"]
  /\ bridged.returned = NoFunction
  /\ \E k \in 1..Len(calls["main"]) :
       /\ calls["main"][k].state = "resolved"
       /\ calls["main"][k].value = calls["main"][k].params[1]

\* The names createBridge is claimed to register: the keys of the own enumerable
\* string-keyed properties of `implementation` whose value is a function
OwnFunctions(implementation) ==
  {implementation[i].key : i \in
     {j \in 1..Len(implementation) :
        /\ implementation[j].keyType = "string"
        /\ implementation[j].own
        /\ implementation[j].enumerable
        /\ implementation[j].value # NotFunction}}

\* C20 as claimed: createBridge(connection, implementation), on a connection that
\* refuses none of the registrations, calls onRequest exactly once for each own
\* enumerable string-keyed function property of `implementation`, and for no
\* other property.
C20_RegistersOwnFunctions ==
  [][\A c \in Callers, implementation \in Implementations :
       (/\ ~disposed[c]
        /\ requestCallbacks[c] = EmptyMap
        /\ CreateBridge(c, implementation))
       => /\ {bridged'.onRequest[i] : i \in 1..Len(bridged'.onRequest)}
               = OwnFunctions(implementation)
          /\ Len(bridged'.onRequest) = Cardinality(OwnFunctions(implementation))
          /\ DOMAIN requestCallbacks'[c] = OwnFunctions(implementation)]_vars

\* C21: Connection.invert has no behaviour of its own.  invert(target, options)
\* makes what new Connection(target, options) makes, for every target and options.
\* And a connection made by invert and one made by the constructor, on the two
\* ends of one channel, stay alike under every sequence of calls and message
\* events: they start alike, and whenever they are alike and the inverted one takes
\* a step (a call of one of the five operations, the disposal of a token, a message
\* event, the completion of a handler), either that step changes nothing or the
\* constructed one can take the same step with the same arguments, which leaves the
\* two in the same state with the same envelopes posted and the same failure
\* reported.
C21_InvertIsConstructor ==
  /\ \A target \in Conns, options \in Values \cup {JsUndefined} :
       Invert(target, options) = Connection(target, options)
  /\ Alike
  /\ [][Alike =>
         /\ Dispose("main")
              => (Alike' \/ (ENABLED (Dispose("worker") /\ Follows))')
         /\ Deliver("main") => (ENABLED (Deliver("worker") /\ Follows))'
         /\ \A invocation \in running["main"] :
              Complete("main", invocation)
                => (ENABLED (Complete("worker", invocation) /\ Follows))'
         /\ \A token \in tokens["main"] :
              DisposeToken("main", token)
                => (Alike' \/ (ENABLED (DisposeToken("worker", token) /\ Follows))')
         /\ inputs' # inputs =>
              /\ \A name \in RequestNames, callback \in Handlers :
                   OnRequest("main", name, callback)
                     => (ENABLED (OnRequest("worker", name, callback) /\ Follows))'
              /\ \A name \in NotificationNames, callback \in Listeners :
                   OnNotification("main", name, callback)
                     => (ENABLED (OnNotification("worker", name, callback) /\ Follows))'
              /\ \A name \in RequestNames, params \in Params :
                   SendRequest("main", name, params)
                     => (ENABLED (SendRequest("worker", name, params) /\ Follows))'
              /\ \A name \in NotificationNames, params \in Params :
                   SendNotification("main", name, params)
                     => (ENABLED (SendNotification("worker", name, params) /\ Follows))'
              /\ \A message \in InvertMessages :
                   PostMessage("main", message)
                     => (ENABLED (PostMessage("worker", message) /\ Follows))'
     ]_vars

\* The inverted connection and the constructed one have each sent a request to
\* the other, served the other's request and received its Response: both calls
\* are resolved, and the two connections are alike
C21_Witness ==
  /\ Made("main") = Invert("worker", JsUndefined)
  /\ Alike
  /\ Len(calls["main"]) = 1
  /\ calls["main"][1].state = "resolved"
  /\ calls["worker"][1].state = "resolved"
  /\ requestId["main"] = 1
  /\ handled["main"] # EmptyMap
  /\ channel["main"] = <<>>

\* C22: every id in the resolver table belongs to a Request handed to the channel.
\* An entry is added only by a step that appends the Request of that id to the
\* peer's queue, and an entry is removed only by the dispatch of the Response of
\* that id; a sendRequest whose post fails leaves the table as it was.
C22_EntriesArePostedRequests ==
  [][\A c \in Conns :
       /\ \A id \in DOMAIN resolvers'[c] \ DOMAIN resolvers[c] :
            /\ Len(channel'[Peer(c)]) = Len(channel[Peer(c)]) + 1
            /\ channel'[Peer(c)][Len(channel'[Peer(c)])].type = REQUEST
            /\ channel'[Peer(c)][Len(channel'[Peer(c)])].id = id
       /\ \A id \in DOMAIN resolvers[c] \ DOMAIN resolvers'[c] :
            /\ Inbound(c, RESPONSE)
            /\ Head(channel[c]).id = id
            /\ channel'[c] = Tail(channel[c])]_vars

\* C23: a post the channel refuses is reported to the call that made it.  A
\* sendRequest on a live connection whose params cannot be cloned returns a promise
\* rejected with the post failure and throws nothing synchronously; a
\* sendNotification whose params cannot be cloned throws the post failure.  In both
\* cases nothing is posted, and every earlier call is left in the state it had.
C23_PostFailureReportedToCaller ==
  [][\A c \in Conns : \A name \in RequestNames \cup NotificationNames : \A params \in Params :
       /\ (~disposed[c] /\ ~Clonable(params[1]) /\ name \in RequestNames
            /\ SendRequest(c, name, params))
          => /\ Len(calls'[c]) = Len(calls[c]) + 1
             /\ calls'[c][Len(calls'[c])].state = "rejected"
             /\ calls'[c][Len(calls'[c])].value = DataCloneError(params[1])
             /\ SubSeq(calls'[c], 1, Len(calls[c])) = calls[c]
             /\ calls'[Peer(c)] = calls[Peer(c)]
             /\ last'.failure = NoFailure
             /\ channel' = channel
       /\ (~disposed[c] /\ ~Clonable(params[1]) /\ name \in NotificationNames
            /\ SendNotification(c, name, params))
          => /\ last'.failure = DataCloneError(params[1])
             /\ calls' = calls
             /\ channel' = channel]_vars

\* A request is outstanding, and a later sendRequest of the same connection was
\* rejected with the post failure
C23_Witness ==
  \E c \in Conns : \E k, l \in 1..Len(calls[c]) :
    /\ k < l
    /\ calls[c][k].state = "pending"
    /\ calls[c][l].state = "rejected"
    /\ calls[c][l].value = DataCloneError(calls[c][l].params[1])
    /\ ~Clonable(calls[c][l].params[1])

\* C24: Responses are correlated by id, in whatever order they arrive.  The
\* dispatch of a Response whose id has a resolver settles the call that sent the
\* Request of that id, with the error or the result of that Response, and changes
\* no other call; and a resolved call was dispatched with its own id and its own
\* params, and holds the value its handler returned.
C24_CorrelatedById ==
  /\ [](\A c \in Conns : \A k \in 1..Len(calls[c]) :
          LET call == calls[c][k] IN
          call.state = "resolved"
            => /\ Dispatched(c, call)
               /\ DispatchOf(c, call).params = call.params
               /\ OutcomeOf(c, call).ok => call.value = OutcomeOf(c, call).value)
  /\ [][\A c \in Conns :
          (/\ Inbound(c, RESPONSE)
           /\ Head(channel[c]).id \in DOMAIN resolvers[c]
           /\ Deliver(c))
          => LET data == Head(channel[c]) IN
             \A k \in 1..Len(calls[c]) :
               IF calls[c][k].id = data.id /\ calls[c][k].state = "pending"
               THEN /\ calls'[c][k].state \in {"resolved", "rejected"}
                    /\ calls'[c][k].state = "rejected" => calls'[c][k].value = data.error
                    /\ calls'[c][k].state = "resolved"
                         => calls'[c][k].value = Field(data, "result")
               ELSE calls'[c][k] = calls[c][k]]_vars

\* Two requests with different params were outstanding; the Response of the second
\* arrived first and resolved it with its own result, while the Response of the
\* first is still on its way
C24_Witness ==
  \E c \in Conns :
    /\ Len(calls[c]) = 2
    /\ calls[c][1].state = "pending"
    /\ calls[c][2].state = "resolved"
    /\ calls[c][1].params # calls[c][2].params
    /\ calls[c][2].value = calls[c][2].params[1]
    /\ ResponsesInFlight(c, calls[c][1].id) = 1

\* The call the handler of the Request of `call` made back to c, once that handler
\* has been started at the peer
Nested(c, call) ==
  /\ call.name = "callCallback"
  /\ Dispatched(c, call)
  /\ DispatchOf(c, call).fn = CallCallback
InnerOf(c, call) == calls[Peer(c)][DispatchOf(c, call).awaits]

\* C26: a request made by a handler back to the requester does not deadlock.  A
\* has registered a handler that returns for 'callback' and its Request
\* 'callCallback' is on its way to B.  Then under fair delivery A's request is
\* resolved; B's handler sends exactly one Request back, A's handler is invoked
\* for it once, and when A's request is resolved B's inner request has been
\* resolved already, with what A's handler returned, which is also what A's
\* request is resolved with.
C26_ReentrantRequestCompletes ==
  /\ [](\A c \in Conns : \A k \in 1..Len(calls[c]) :
          LET call == calls[c][k] IN
          (Nested(c, call) /\ call.state = "resolved")
            => /\ InnerOf(c, call).state = "resolved"
               /\ InnerOf(c, call).id \in DOMAIN handled[c]
               /\ handled[c][InnerOf(c, call).id].fn \in CallbackHandlers
               /\ HandlerOutcome(handled[c][InnerOf(c, call).id].fn, NoParams).ok
                    => InnerOf(c, call).value
                         = HandlerOutcome(handled[c][InnerOf(c, call).id].fn, NoParams).value
               /\ call.value = InnerOf(c, call).value)
  /\ [][\A c \in Conns :
          (Inbound(c, REQUEST) /\ OnMessage(c))
          => /\ Head(channel[c]).id \notin DOMAIN handled[c]
             /\ Head(channel[c]).id \in DOMAIN handled'[c]
             /\ ForCallCallback(c)
                  => /\ Len(calls'[c]) = Len(calls[c]) + 1
                     /\ Len(channel'[Peer(c)]) = Len(channel[Peer(c)]) + 1
                     /\ channel'[Peer(c)][Len(channel'[Peer(c)])].type = REQUEST
                     /\ channel'[Peer(c)][Len(channel'[Peer(c)])].name = "callback"]_vars
  /\ \A c \in Callers : \A k \in 1..MaxRequests :
       (/\ k <= Len(calls[c])
        /\ calls[c][k].state = "pending"
        /\ calls[c][k].name = "callCallback"
        /\ \E i \in 1..Len(channel[Peer(c)]) :
             /\ channel[Peer(c)][i].type = REQUEST
             /\ channel[Peer(c)][i].id = calls[c][k].id
        /\ "callback" \in DOMAIN requestCallbacks[c]
        /\ requestCallbacks[c]["callback"] = "ok")
       ~> (/\ k <= Len(calls[c])
           /\ calls[c][k].state = "resolved"
           /\ calls[c][k].value = JsLiteral)

\* The outer request was resolved with what the requester's own handler returned
\* to the request the peer's handler made
C26_Witness ==
  \E c \in Callers :
    /\ Len(calls[c]) = 1
    /\ Nested(c, calls[c][1])
    /\ calls[c][1].state = "resolved"
    /\ calls[c][1].value = JsLiteral
    /\ handled[c] # EmptyMap
    /\ Len(calls[Peer(c)]) = 1
    /\ calls[Peer(c)][1].state = "resolved"

\* What went wrong with the Request of `call` at the peer of its sender: no
\* handler was registered, or the handler threw
FailureOf(c, call) ==
  IF DispatchOf(c, call).fn = NoHandler THEN NotImplementedError(call.name)
  ELSE OutcomeOf(c, call).value
Failed(c, call) ==
  /\ Dispatched(c, call)
  /\ DispatchOf(c, call).fn \in {NoHandler} \cup CallbackHandlers
  /\ DispatchOf(c, call).fn # NoHandler => ~OutcomeOf(c, call).ok

\* C27: failures propagate through nested requests.  When the request B's handler
\* sent back to A has failed at A (no handler for it, or a handler that threw),
\* A's outer request, once settled, is rejected, with that very failure (for
\* NotImplemented, the failure names the inner request), and no step of either
\* connection fails with it.
C27_NestedFailurePropagates ==
  /\ [](\A c \in Conns : \A k \in 1..Len(calls[c]) :
          LET call == calls[c][k] IN
          (/\ Nested(c, call)
           /\ Failed(Peer(c), InnerOf(c, call))
           /\ call.state # "pending")
            => /\ call.state = "rejected"
               /\ call.value = FailureOf(Peer(c), InnerOf(c, call))
               /\ InnerOf(c, call).state = "rejected"
               /\ InnerOf(c, call).value = FailureOf(Peer(c), InnerOf(c, call)))
  /\ [][inputs' = inputs => last'.failure = NoFailure]_vars

\* C25: dispatch does not wait for handlers, and follows the order of delivery.
\* Whenever the channel holds a message for c it can be dispatched, whether or not
\* handlers of c are still running.  A connection's queue changes only by a post
\* at its end or by the dispatch of its head; a handler is started only by the
\* dispatch of the Request at the head, with that Request's id and params, and
\* listeners are invoked only by the dispatch of the Notification at the head.
C25_NonBlockingInOrder ==
  /\ [](\A c \in Conns : channel[c] # <<>> => ENABLED Deliver(c))
  /\ [][\A c \in Conns :
          /\ IF Len(channel'[c]) < Len(channel[c])
             THEN channel'[c] = Tail(channel[c]) /\ Deliver(c)
             ELSE SubSeq(channel'[c], 1, Len(channel[c])) = channel[c]
          /\ running'[c] \ running[c] # {}
               => /\ Inbound(c, REQUEST)
                  /\ Deliver(c)
                  /\ \A invocation \in running'[c] \ running[c] :
                       /\ invocation.id = Head(channel[c]).id
                       /\ invocation.params = Head(channel[c]).params
                       /\ invocation.fn = requestCallbacks[c][Head(channel[c]).name]
          /\ (last'.invoked # <<>> /\ channel'[c] # channel[c] /\ channel'[Peer(c)] = channel[Peer(c)])
               => /\ Inbound(c, NOTIFICATION)
                  /\ Deliver(c)
                  /\ \A i \in 1..Len(last'.invoked) :
                       last'.invoked[i].params = Head(channel[c]).params]_vars

\* The handler of the first Request is still running; the second Request,
\* delivered after it, has been dispatched and its handler has completed
C25_Witness ==
  \E c \in Conns : \E first \in running[c] :
    /\ first.id = 1
    /\ 2 \in DOMAIN handled[c]
    /\ handled[c][2].fn \in Handlers
    /\ handled[c][2] \notin running[c]
    /\ ResponsesInFlight(Peer(c), 2) = 1

\* A Request named name is on its way to c: sent, and not dispatched yet
InFlight(c, name) ==
  \E i \in 1..Len(channel[c]) : channel[c][i].type = REQUEST /\ channel[c][i].name = name

\* C28: the handler of a Request is looked up when the Request is dispatched.
\* While a Request is on its way, registering a handler under its name and
\* disposing the token of the handler registered under its name change the table
\* and leave the Request where it is; the dispatch then reads the table as it is:
\* with no handler under the name (one registered and disposed included) no
\* handler is started and the NotImplemented Response is posted, and with a
\* handler under the name, whenever it was registered, that handler is started.
C28_HandlerLookedUpAtDispatch ==
  [][\A c \in Conns :
       /\ \A name \in RequestNames : \A callback \in Handlers :
            (/\ InFlight(c, name)
             /\ ~disposed[c]
             /\ name \notin DOMAIN requestCallbacks[c]
             /\ OnRequest(c, name, callback))
            => /\ name \in DOMAIN requestCallbacks'[c]
               /\ requestCallbacks'[c][name] = callback
               /\ channel' = channel
       /\ \A token \in tokens[c] :
            (/\ token.kind = "request"
             /\ InFlight(c, token.name)
             /\ token.name \in DOMAIN requestCallbacks[c]
             /\ requestCallbacks[c][token.name] = token.fn
             /\ DisposeToken(c, token))
            => /\ token.name \notin DOMAIN requestCallbacks'[c]
               /\ channel' = channel
       /\ (Inbound(c, REQUEST) /\ Deliver(c))
            => LET data == Head(channel[c]) IN
               IF data.name \in DOMAIN requestCallbacks[c]
               THEN /\ running'[c] = running[c] \cup
                         {[id |-> data.id, fn |-> requestCallbacks[c][data.name],
                           params |-> data.params]}
                    /\ handled'[c][data.id].fn = requestCallbacks[c][data.name]
               ELSE /\ running'[c] = running[c]
                    /\ handled'[c][data.id].fn = NoHandler
                    /\ channel'[Peer(c)] = Append(channel[Peer(c)],
                         [type |-> RESPONSE, id |-> data.id,
                          error |-> NotImplementedError(data.name)])]_vars

\* Two Requests of one name: the first was dispatched to the handler registered
\* then; its token was disposed before the second was dispatched, and the second
\* was answered NotImplemented without the handler being invoked
C28_Witness ==
  \E c \in Servers :
    /\ Len(calls[Peer(c)]) = 2
    /\ calls[Peer(c)][1].name = calls[Peer(c)][2].name
    /\ DOMAIN handled[c] = {1, 2}
    /\ handled[c][1].fn \in Handlers
    /\ handled[c][2].fn = NoHandler
    /\ \E token \in tokens[c] : token.name = calls[Peer(c)][1].name /\ token.fn = handled[c][1].fn
    /\ ResponsesInFlight(Peer(c), 2) = 1

\* Whether the handler of a running invocation is still registered on c
Registered(c, invocation) ==
  \E name \in DOMAIN requestCallbacks[c] : requestCallbacks[c][name] = invocation.fn

\* C29: a handler invocation in flight is committed.  No registration and no
\* disposal of a token removes or changes it, or posts anything; and when it
\* completes with its handler no longer registered (disposed, or replaced by
\* another handler), the Response posted is the one of the handler that was
\* invoked, with the id of the Request that invoked it.
C29_InvocationCommitted ==
  [][\A c \in Conns : \A invocation \in running[c] :
       /\ (requestCallbacks'[c] # requestCallbacks[c] /\ ~disposed'[c])
            => /\ invocation \in running'[c]
               /\ channel' = channel
               /\ handled' = handled
       /\ (~Registered(c, invocation) /\ invocation.fn \in Handlers /\ Complete(c, invocation))
            => LET outcome == HandlerOutcome(invocation.fn, invocation.params)
                   expected == IF outcome.ok /\ Clonable(outcome.value)
                               THEN [type |-> RESPONSE, id |-> invocation.id,
                                     result |-> outcome.value]
                               ELSE [type |-> RESPONSE, id |-> invocation.id,
                                     error |-> IF Clonable(outcome.value) /\ ~outcome.ok
                                               THEN outcome.value
                                               ELSE DataCloneError(outcome.value)]
               IN channel'[Peer(c)] = Append(channel[Peer(c)], expected)]_vars

\* A handler is running for Request 1; its token has been disposed and another
\* handler is now registered under the same name
C29_Witness ==
  \E c \in Servers : \E invocation \in running[c] : \E token \in tokens[c] :
    /\ invocation.id = 1
    /\ token.kind = "request"
    /\ token.fn = invocation.fn
    /\ token.name = calls[Peer(c)][1].name
    /\ token.name \in DOMAIN requestCallbacks[c]
    /\ requestCallbacks[c][token.name] # invocation.fn
    /\ ~Registered(c, invocation)

\* C30: after dispose() no handler and no listener of the connection fires.  On a
\* disposed connection no step starts a handler invocation or records one, and the
\* delivery of an envelope, whenever the peer posted it, invokes no listener, posts
\* nothing and settles nothing: it only takes the envelope off the queue.
C30_NothingFiresAfterDispose ==
  [][\A c \in Conns :
       disposed[c]
         => /\ running'[c] \subseteq running[c]
            /\ handled'[c] = handled[c]
            /\ Deliver(c)
                 => /\ last'.invoked = <<>>
                    /\ last'.failure = NoFailure
                    /\ channel'[c] = Tail(channel[c])
                    /\ channel'[Peer(c)] = channel[Peer(c)]
                    /\ calls' = calls
                    /\ resolvers' = resolvers]_vars

\* The connection had a handler registered and was disposed; a Request of the
\* peer under the handler's name has been delivered since, and the handler was not
\* invoked: the request stays pending
C30_Witness ==
  \E c \in Servers :
    /\ disposed[c]
    /\ \E token \in tokens[c] : token.kind = "request"
    /\ Len(calls[Peer(c)]) = 1
    /\ calls[Peer(c)][1].state = "pending"
    /\ calls[Peer(c)][1].id # 0
    /\ calls[Peer(c)][1].name \in {token.name : token \in tokens[c]}
    /\ channel[c] = <<>>
    /\ handled[c] = EmptyMap
    /\ running[c] = {}

\* C31: the subscription to the channel follows the life of the connection.  A
\* connection has its message listener on its target exactly while it is not
\* disposed: the constructor adds it, and the only step that changes it is
\* dispose(), which removes it.
C31_ListenerWhileNotDisposed ==
  /\ [](\A c \in Conns : listening[c] <=> ~disposed[c])
  /\ [][\A c \in Conns :
          listening'[c] # listening[c]
            => /\ listening[c]
               /\ ~listening'[c]
               /\ Dispose(c)]_vars

\* One connection was disposed after it had served a request and has no listener
\* left; its peer, which sent requests, still has its own
C31_Witness ==
  \E c \in Conns :
    /\ disposed[c] /\ ~listening[c]
    /\ handled[c] # EmptyMap
    /\ ~disposed[Peer(c)] /\ listening[Peer(c)]
    /\ Len(calls[Peer(c)]) = 2

\* The id that follows id in the allocation order
NextId(id) == IF id = MAX_SAFE_INTEGER THEN 1 ELSE id + 1

\* C32: id allocation.  The counter starts at 0, which no request carries.  It
\* changes only in a sendRequest on a connection that is not disposed, which
\* moves it to the next id, 1 after 0 and 1 again after MAX, and gives that id to
\* the request; every id allocated, stored with a resolver or carried by a Request
\* lies in 1..MAX.
C32_IdAllocation ==
  /\ \A target \in Conns : Connection(target, JsUndefined).requestId = 0
  /\ [](\A c \in Conns :
          /\ requestId[c] \in 0..MAX_SAFE_INTEGER
          /\ \A id \in DOMAIN resolvers[c] : id \in 1..MAX_SAFE_INTEGER
          /\ \A i \in 1..Len(channel[c]) :
               channel[c][i].type = REQUEST => channel[c][i].id \in 1..MAX_SAFE_INTEGER
          /\ \A k \in 1..Len(calls[c]) :
               IF calls[c][k].id = 0
               THEN calls[c][k].state = "rejected" /\ calls[c][k].value = DisposedError
               ELSE calls[c][k].id \in 1..MAX_SAFE_INTEGER)
  /\ [][\A c \in Conns :
          /\ requestId'[c] # requestId[c]
               => /\ ~disposed[c]
                  /\ requestId'[c] = NextId(requestId[c])
                  /\ requestId[c] = 0 => requestId'[c] = 1
                  /\ Len(calls'[c]) = Len(calls[c]) + 1
                  /\ calls'[c][Len(calls'[c])].id = requestId'[c]
          /\ \A name \in RequestNames : \A params \in Params :
               (~disposed[c] /\ SendRequest(c, name, params))
                 => /\ requestId'[c] = NextId(requestId[c])
                    /\ calls'[c][Len(calls'[c])].id = requestId'[c]
                    /\ requestId'[c] \in DOMAIN resolvers'[c]]_vars

\* The counter has passed MAX: the request sent when it stood at MAX carries id 1
\* and has been answered through the resolver stored under 1
C32_Witness ==
  \E c \in Callers :
    /\ Len(calls[c]) = 2
    /\ calls[c][2].id = 1
    /\ calls[c][2].state = "resolved"
    /\ requestId[c] = 1
    /\ 1 \notin DOMAIN resolvers[c]

\* C33: a request is settled at most once.  A settled call never changes; and
\* the dispatch of a further Response carrying the id of a settled request, whose
\* resolver is gone, fails with the missing-callback error and changes no call and
\* no resolver.
C33_SettledAtMostOnce ==
  /\ [][\A c \in Conns : \A k \in 1..Len(calls[c]) :
          calls[c][k].state # "pending" => calls'[c][k] = calls[c][k]]_vars
  /\ [][\A c \in Conns : \A k \in 1..Len(calls[c]) :
          (/\ calls[c][k].state # "pending"
           /\ calls[c][k].id # 0
           /\ Inbound(c, RESPONSE)
           /\ Head(channel[c]).id = calls[c][k].id
           /\ calls[c][k].id \notin DOMAIN resolvers[c]
           /\ Deliver(c))
          => /\ last'.failure = MissingCallbackError(calls[c][k].id)
             /\ calls' = calls
             /\ resolvers' = resolvers]_vars

\* Request 1 was resolved with the result of one Response; a second Response of
\* id 1, carrying an error, has just been dispatched and reported as orphaned
C33_Witness ==
  \E c \in Callers :
    /\ Len(calls[c]) >= 1
    /\ calls[c][1].id = 1
    /\ calls[c][1].state = "resolved"
    /\ 1 \notin DOMAIN resolvers[c]
    /\ last.failure = MissingCallbackError(1)

\* The Responses on their way to c that carry this id
ResponsesFor(c, id) ==
  {channel[c][i] : i \in {j \in 1..Len(channel[c]) :
                            channel[c][j].type = RESPONSE /\ channel[c][j].id = id}}

\* C34: a call without a return value succeeds with undefined.  The dispatch of a
\* Response that carries neither result nor error, for the id of a pending
\* request, resolves that request with undefined.  A handler that returns
\* nothing is answered by a Response whose result is undefined; and once no other
\* Response for the request can arrive, the request of such a handler is
\* eventually resolved with undefined, under fair delivery.
C34_NoValueResolvesUndefined ==
  /\ [][\A c \in Conns :
          (/\ Inbound(c, RESPONSE)
           /\ Head(channel[c]).id \in DOMAIN resolvers[c]
           /\ calls[c][resolvers[c][Head(channel[c]).id]].state = "pending"
           /\ "result" \notin DOMAIN Head(channel[c])
           /\ "error" \notin DOMAIN Head(channel[c])
           /\ Deliver(c))
          => LET k == resolvers[c][Head(channel[c]).id] IN
             /\ calls'[c][k] = Settle(calls[c][k], "resolved", JsUndefined)
             /\ resolvers'[c] = MapDelete(resolvers[c], Head(channel[c]).id)
             /\ last'.failure = NoFailure]_vars
  /\ [][\A c \in Conns : \A invocation \in running[c] :
          (/\ invocation.fn = "echo"
           /\ invocation.params = NoParams
           /\ Complete(c, invocation))
          => channel'[Peer(c)] = Append(channel[Peer(c)],
               [type |-> RESPONSE, id |-> invocation.id, result |-> JsUndefined])]_vars
  /\ \A c \in Callers : \A k \in 1..MaxRequests :
       (/\ k <= Len(calls[c])
        /\ calls[c][k].state = "pending"
        /\ calls[c][k].params = NoParams
        /\ Dispatched(c, calls[c][k])
        /\ DispatchOf(c, calls[c][k]).fn = "echo"
        /\ inputs = MaxInputs
        /\ ResponsesFor(c, calls[c][k].id)
             \subseteq {[type |-> RESPONSE, id |-> calls[c][k].id, result |-> JsUndefined]})
       ~> (/\ k <= Len(calls[c])
           /\ calls[c][k].state = "resolved"
           /\ calls[c][k].value = JsUndefined)

\* One request was resolved with undefined by a Response without result and
\* error; another, sent without parameters to a handler that returned nothing,
\* was resolved with undefined too
C34_Witness ==
  \E c \in Callers :
    /\ Len(calls[c]) = 2
    /\ calls[c][1].state = "resolved" /\ calls[c][1].value = JsUndefined
    /\ calls[c][1].params # NoParams
    /\ calls[c][2].state = "resolved" /\ calls[c][2].value = JsUndefined
    /\ calls[c][2].params = NoParams
    /\ Dispatched(c, calls[c][2])
    /\ DispatchOf(c, calls[c][2]).fn = "echo"

\* The listener table of a connection after the disposable of a listener
\* registration has been disposed: callbacks.delete(callback)
AfterTokenDispose(table, token) ==
  IF token.name \in DOMAIN table
  THEN [table EXCEPT ![token.name] = SetDelete(@, token.fn)]
  ELSE table

\* C35: each onNotification call is its own registration.  When a listener that
\* is already registered under a name is registered under it again, disposing the
\* token of one of the two registrations leaves the listener registered, and a
\* Notification of that name still invokes it.
C35_RegistrationsAreSeparate ==
  [][\A c \in Conns : \A name \in NotificationNames : \A callback \in Listeners :
       (/\ ~disposed[c]
        /\ name \in DOMAIN notificationCallbacks[c]
        /\ InSeq(notificationCallbacks[c][name], callback)
        /\ OnNotification(c, name, callback))
       => LET token == [kind |-> "notification", name |-> name, fn |-> callback]
              after == AfterTokenDispose(notificationCallbacks'[c], token)
          IN /\ token \in tokens'[c]
             /\ InSeq(after[name], callback)
             /\ \A params \in Params :
                  \E i \in 1..Len(Invoked(after[name], params)) :
                    Invoked(after[name], params)[i].fn = callback]_vars

\* The Request of the k-th call of c was delivered to the peer and dropped there:
\* it is no longer on its way, and the peer never dispatched it
Dropped(c, k) ==
  /\ calls[c][k].id # 0
  /\ calls[c][k].state = "pending"
  /\ calls[c][k].id \notin DOMAIN handled[Peer(c)]
  /\ \A i \in 1..Len(channel[Peer(c)]) :
       channel[Peer(c)][i].type = REQUEST => channel[Peer(c)][i].id # calls[c][k].id

\* C36: a Request delivered to a disposed connection is not answered.  Its
\* delivery starts no handler and posts nothing, not even the NotImplemented
\* Response, and from then on the requester's call stays pending.
C36_NoAnswerAfterDispose ==
  /\ [][\A c \in Conns :
          (/\ disposed[c]
           /\ channel[c] # <<>>
           /\ Head(channel[c]).type = REQUEST
           /\ Deliver(c))
          => /\ channel'[Peer(c)] = channel[Peer(c)]
             /\ channel'[c] = Tail(channel[c])
             /\ running' = running
             /\ handled' = handled
             /\ \A k \in 1..Len(calls[Peer(c)]) :
                  calls[Peer(c)][k].id = Head(channel[c]).id
                    => calls'[Peer(c)][k].state = "pending"]_vars
  /\ [][\A c \in Conns : \A k \in 1..Len(calls[c]) :
          Dropped(c, k) => Dropped(c, k)']_vars

\* The peer was disposed without ever having had a handler; the request delivered
\* to it was dropped, no Response is on its way, and no further call can be made
C36_Witness ==
  \E c \in Callers :
    /\ disposed[Peer(c)]
    /\ tokens[Peer(c)] = {}
    /\ Len(calls[c]) = 1
    /\ Dropped(c, 1)
    /\ channel[c] = <<>>
    /\ inputs = MaxInputs

\* C37: posting a Response does not test the disposed flag.  When a handler of a
\* disposed connection completes, the Response of its Request is posted as it
\* would be otherwise, while sendRequest and sendNotification on that connection
\* fail with the Disposed error and post nothing.
C37_ResponsePostedAfterDispose ==
  [][\A c \in Conns :
       /\ \A invocation \in running[c] :
            (disposed[c] /\ Complete(c, invocation))
            => LET posted == Responses(invocation.id,
                                       HandlerOutcome(invocation.fn, invocation.params))
               IN /\ posted # <<>>
                  /\ posted[1].id = invocation.id
                  /\ channel'[Peer(c)] = Append(channel[Peer(c)], posted[1])
                  /\ last'.failure = NoFailure
       /\ (disposed[c] /\ running[c] # {} /\ SendNotification(c, "sendEmail", <<JsLiteral>>))
            => /\ last'.failure = DisposedError
               /\ channel' = channel
       /\ (disposed[c] /\ running[c] # {} /\ SendRequest(c, "getPet", <<JsLiteral>>))
            => /\ calls'[c][Len(calls'[c])].state = "rejected"
               /\ calls'[c][Len(calls'[c])].value = DisposedError
               /\ channel' = channel]_vars

\* The connection was disposed while its handler was running: its own sendRequest
\* has been rejected with the Disposed error, and the handler has yet to complete
C37_Witness ==
  \E c \in Servers :
    /\ disposed[c]
    /\ running[c] # {}
    /\ Len(calls[c]) = 1
    /\ calls[c][1].state = "rejected"
    /\ calls[c][1].value = DisposedError
    /\ Len(calls[Peer(c)]) = 1
    /\ calls[Peer(c)][1].state = "pending"

\* Where fn stands in the listeners of a name (0 when it is not among them)
IndexOf(callbacks, fn) ==
  IF InSeq(callbacks, fn) THEN CHOOSE i \in 1..Len(callbacks) : callbacks[i] = fn ELSE 0
InvokedFns(invoked) == {invoked[i].fn : i \in 1..Len(invoked)}

\* C38: the dispatch of a Notification follows the listener set as it changes.
\* A listener registered under the name by a listener of that dispatch is invoked
\* in the same dispatch, after the one that registered it; a listener whose
\* token is disposed by a listener invoked before it is not invoked, while one
\* invoked before the disposal is; and a dispatch ends only when no listener it
\* invokes keeps adding new listeners: with such a listener in the set the
\* dispatch has no end, and without one it has.
C38_DispatchFollowsLiveSet ==
  /\ [][\A c \in Conns :
          (/\ Inbound(c, NOTIFICATION)
           /\ Head(channel[c]).name \in DOMAIN notificationCallbacks[c]
           /\ OnMessageLive(c))
          => LET callbacks == notificationCallbacks[c][Head(channel[c]).name]
                 registrar == IndexOf(callbacks, "registrar")
                 disposer == IndexOf(callbacks, "disposer")
                 listener == IndexOf(callbacks, "listener")
                 fns == InvokedFns(last'.invoked)
             IN /\ (registrar # 0 /\ listener = 0 /\ disposer = 0)
                     => /\ "listener" \in fns
                        /\ last'.invoked[Len(last'.invoked)].fn = "listener"
                /\ (disposer # 0 /\ disposer < listener /\ registrar = 0)
                     => "listener" \notin fns
                /\ (listener # 0 /\ listener < disposer) => "listener" \in fns
                /\ \A i \in 1..Len(callbacks) : callbacks[i] \in fns \/ callbacks[i] = "listener"
                /\ \A i \in 1..Len(last'.invoked) : ~Spawns(last'.invoked[i].fn)]_vars
  /\ [](\A c \in Conns :
          (Inbound(c, NOTIFICATION) /\ Head(channel[c]).name \in DOMAIN notificationCallbacks[c])
            => (ENABLED OnMessageLive(c)
                  <=> \A i \in 1..Len(notificationCallbacks[c][Head(channel[c]).name]) :
                        ~Spawns(notificationCallbacks[c][Head(channel[c]).name][i])))

\* Only "registrar" was registered by the worker; the dispatch of one
\* Notification invoked it and then "listener", which it had registered
C38_Witness ==
  \E c \in Servers :
    /\ \A token \in tokens[c] : token.fn = "registrar"
    /\ Len(last.invoked) = 2
    /\ last.invoked[1].fn = "registrar"
    /\ last.invoked[2].fn = "listener"
    /\ "sendEmail" \in DOMAIN notificationCallbacks[c]
    /\ notificationCallbacks[c]["sendEmail"] = <<"registrar", "listener">>

\* C39: createBridge does not register atomically.  When one of its onRequest
\* calls fails, createBridge fails with the error of that call, which is the
\* Disposed error or the already-registered error of the key, and returns no
\* bridge; the keys it registered before the failing one are registered
\* afterwards, with the functions of the implementation, and the handler that was
\* in the way is the one it was.
C39_BridgeRegistrationNotAtomic ==
  [][\A c \in Callers :
       (inputs' # inputs /\ last'.failure # NoFailure /\ ~bridged.created)
       => \A implementation \in Implementations :
          CreateBridge(c, implementation)
       => LET called == bridged'.onRequest
              failed == called[Len(called)]
          IN /\ called # <<>>
             /\ ~bridged'.created
             /\ last'.failure = IF disposed[c] THEN DisposedError
                                ELSE AlreadyRegisteredError(failed)
             /\ disposed[c] => Len(called) = 1 /\ requestCallbacks' = requestCallbacks
             /\ ~disposed[c]
                  => /\ failed \in DOMAIN requestCallbacks[c]
                     /\ requestCallbacks'[c][failed] = requestCallbacks[c][failed]
                     /\ \A i \in 1..(Len(called) - 1) :
                          /\ called[i] \notin DOMAIN requestCallbacks[c]
                          /\ called[i] \in DOMAIN requestCallbacks'[c]
                          /\ \E j \in 1..Len(implementation) :
                               /\ implementation[j].key = called[i]
                               /\ implementation[j].value = requestCallbacks'[c][called[i]]]_vars

\* createBridge failed on its second function, whose name had a handler already;
\* no bridge was made, and the handler it registered for the first function is
\* on the connection
C39_Witness ==
  \E c \in Callers :
    /\ ~bridged.created
    /\ Len(bridged.onRequest) = 2
    /\ last.failure = AlreadyRegisteredError(bridged.onRequest[2])
    /\ \A token \in tokens[c] : token.name = bridged.onRequest[2]
    /\ bridged.onRequest[1] \in DOMAIN requestCallbacks[c]
    /\ bridged.onRequest[2] \in DOMAIN requestCallbacks[c]

----------------------------------------------------------------------------
(* createConnection: the factory implementation.  Its state is the closure's
   variables (disposed, requestId, the three Maps) and the listener it adds to
   the target; they are kept in the variables of the same names. *)

\* createConnection(target, options) up to its return: the closure's variables,
\* and target.addEventListener('message', onMessage)
CreateConnection(target, options) ==
  [target |-> target, options |-> options, disposed |-> FALSE, requestId |-> 0,
   requestCallbacks |-> EmptyMap, notificationCallbacks |-> EmptyMap,
   resolvers |-> EmptyMap, listening |-> TRUE]

\* Both threads make their connection with the factory; neither passes options.
FactoryMade(c) == CreateConnection(Peer(c), JsUndefined)

FactoryInit ==
  /\ disposed = [c \in Conns |-> FactoryMade(c).disposed]
  /\ requestId = [c \in Conns |-> FactoryMade(c).requestId]
  /\ requestCallbacks = [c \in Conns |-> FactoryMade(c).requestCallbacks]
  /\ notificationCallbacks = [c \in Conns |-> FactoryMade(c).notificationCallbacks]
  /\ resolvers = [c \in Conns |-> FactoryMade(c).resolvers]
  /\ listening = [c \in Conns |-> FactoryMade(c).listening]
  /\ channel = [c \in Conns |-> <<>>]
  /\ running = [c \in Conns |-> {}]
  /\ calls = [c \in Conns |-> <<>>]
  /\ tokens = [c \in Conns |-> {}]
  /\ handled = [c \in Conns |-> EmptyMap]
  /\ notifications = 0
  /\ inputs = 0
  /\ last = Step(NoFailure, <<>>)
  /\ fnMap = EmptyMap
  /\ bridged = Bridged(FALSE, NoFunction, <<>>)

\* checkDisposed
FactoryCheckDisposed(c) == disposed[c]

\* send: target.postMessage(data, options), when it does not throw
FactorySend(ch, c, data) == [ch EXCEPT ![Peer(c)] = Append(@, data)]

\* onRequest of the returned object
FactoryOnRequest(c, name, callback) ==
  LET token == [kind |-> "request", name |-> name, fn |-> callback]
      thrown == IF FactoryCheckDisposed(c) THEN DisposedError
                ELSE IF name \in DOMAIN requestCallbacks[c] THEN AlreadyRegisteredError(name)
                ELSE NoFailure
  IN
  /\ MayCall
  /\ inputs' = inputs + 1
  /\ thrown = NoFailure => MayRegister(c, token)
  /\ last' = Step(thrown, <<>>)
  /\ requestCallbacks' =
       IF thrown = NoFailure
       THEN [requestCallbacks EXCEPT ![c] = MapSet(@, name, callback)]
       ELSE requestCallbacks
  /\ tokens' = IF thrown = NoFailure THEN [tokens EXCEPT ![c] = @ \cup {token}] ELSE tokens
  /\ UNCHANGED <<disposed, requestId, notificationCallbacks, resolvers, listening,
                 channel, running, calls, handled, notifications>>
  /\ UNCHANGED <<fnMap, bridged>>

\* onNotification of the returned object
FactoryOnNotification(c, name, callback) ==
  LET token == [kind |-> "notification", name |-> name, fn |-> callback]
      thrown == IF FactoryCheckDisposed(c) THEN DisposedError ELSE NoFailure
      created == IF name \in DOMAIN notificationCallbacks[c]
                 THEN notificationCallbacks[c]
                 ELSE MapSet(notificationCallbacks[c], name, <<>>)
  IN
  /\ MayCall
  /\ inputs' = inputs + 1
  /\ thrown = NoFailure => MayRegister(c, token)
  /\ last' = Step(thrown, <<>>)
  /\ notificationCallbacks' =
       IF thrown = NoFailure
       THEN [notificationCallbacks EXCEPT
               ![c] = [created EXCEPT ![name] = SetAdd(@, callback)]]
       ELSE notificationCallbacks
  /\ tokens' = IF thrown = NoFailure THEN [tokens EXCEPT ![c] = @ \cup {token}] ELSE tokens
  /\ UNCHANGED <<disposed, requestId, requestCallbacks, resolvers, listening,
                 channel, running, calls, handled, notifications>>
  /\ UNCHANGED <<fnMap, bridged>>

\* [Symbol.dispose] of the objects returned by onRequest and onNotification
FactoryDisposeToken(c, token) ==
  /\ token \in tokens[c]
  /\ requestCallbacks' =
       IF token.kind = "request"
       THEN [requestCallbacks EXCEPT ![c] = MapDelete(@, token.name)]
       ELSE requestCallbacks
  /\ notificationCallbacks' =
       IF token.kind = "notification" /\ token.name \in DOMAIN notificationCallbacks[c]
       THEN [notificationCallbacks EXCEPT ![c][token.name] = SetDelete(@, token.fn)]
       ELSE notificationCallbacks
  /\ last' = Step(NoFailure, <<>>)
  /\ UNCHANGED <<disposed, requestId, resolvers, listening, channel, running, calls,
                 tokens, handled, notifications, inputs>>
  /\ UNCHANGED <<fnMap, bridged>>

\* sendRequest of the returned object
FactorySendRequest(c, name, params) ==
  LET allocated == (requestId[c] % MAX_SAFE_INTEGER) + 1
      data == [type |-> REQUEST, id |-> allocated, name |-> name, params |-> params]
      promise == Len(calls[c]) + 1
  IN
  /\ MayCall
  /\ inputs' = inputs + 1
  /\ MayRequest
  /\ last' = Step(NoFailure, <<>>)
  /\ IF FactoryCheckDisposed(c) THEN
       /\ calls' = [calls EXCEPT ![c] = Append(@, Call(name, params, 0, "rejected", DisposedError))]
       /\ UNCHANGED <<requestId, resolvers, channel>>
     ELSE
       /\ requestId' = [requestId EXCEPT ![c] = allocated]
       /\ resolvers' = [resolvers EXCEPT ![c] = MapSet(@, allocated, promise)]
       /\ channel' = IF EnvelopeClonable(data) THEN FactorySend(channel, c, data) ELSE channel
       /\ calls' = [calls EXCEPT ![c] = Append(@,
            IF EnvelopeClonable(data)
            THEN Call(name, params, allocated, "pending", JsUndefined)
            ELSE Call(name, params, allocated, "rejected", DataCloneError(params[1])))]
  /\ UNCHANGED <<disposed, requestCallbacks, notificationCallbacks, listening, running,
                 tokens, handled, notifications>>
  /\ UNCHANGED <<fnMap, bridged>>

\* sendNotification of the returned object
FactorySendNotification(c, name, params) ==
  LET data == [type |-> NOTIFICATION, name |-> name, params |-> params]
      thrown == IF FactoryCheckDisposed(c) THEN DisposedError
                ELSE IF ~EnvelopeClonable(data) THEN DataCloneError(params[1])
                ELSE NoFailure
  IN
  /\ MayCall
  /\ inputs' = inputs + 1
  /\ thrown = NoFailure => MayNotify
  /\ last' = Step(thrown, <<>>)
  /\ notifications' = IF thrown = NoFailure THEN notifications + 1 ELSE notifications
  /\ channel' = IF thrown = NoFailure THEN FactorySend(channel, c, data) ELSE channel
  /\ UNCHANGED <<disposed, requestId, requestCallbacks, notificationCallbacks, resolvers,
                 listening, running, calls, tokens, handled>>
  /\ UNCHANGED <<fnMap, bridged>>

\* Mutant: the factory's dispose leaves the two tables as they are.
FactoryDispose_KeepTables(c) ==
  /\ disposed' = [disposed EXCEPT ![c] = TRUE]
  /\ listening' = [listening EXCEPT ![c] = FALSE]
  /\ last' = Step(NoFailure, <<>>)
  /\ UNCHANGED <<requestId, requestCallbacks, notificationCallbacks, resolvers, channel,
                 running, calls, tokens, handled, notifications, inputs>>
  /\ UNCHANGED <<fnMap, bridged>>

\* [Symbol.dispose] of the returned object
FactoryDispose(c) ==
  /\ disposed' = [disposed EXCEPT ![c] = TRUE]
  /\ requestCallbacks' = [requestCallbacks EXCEPT ![c] = EmptyMap]
  /\ notificationCallbacks' = [notificationCallbacks EXCEPT ![c] = EmptyMap]
  /\ listening' = [listening EXCEPT ![c] = FALSE]
  /\ last' = Step(NoFailure, <<>>)
  /\ UNCHANGED <<requestId, resolvers, channel, running, calls, tokens, handled,
                 notifications, inputs>>
  /\ UNCHANGED <<fnMap, bridged>>

\* for (const callback of callbacks) callback?.(...params) in onMessage: what the
\* loop throws and the listeners it has invoked, the throwing one included
RECURSIVE FactoryForOf(_, _, _)
FactoryForOf(callbacks, params, invoked) ==
  IF callbacks = <<>> THEN Step(NoFailure, invoked)
  ELSE LET callback == Head(callbacks)
           called == Append(invoked, [fn |-> callback, params |-> params])
       IN IF ListenerThrows(callback) THEN Step(ListenerError, called)
          ELSE FactoryForOf(Tail(callbacks), params, called)

\* onMessage, up to `await callback(...params)` in its Request branch
FactoryOnMessage(c, data) ==
  IF data.type = NOTIFICATION THEN
    LET name == data.name
        params == data.params
    IN
    /\ channel' = [channel EXCEPT ![c] = Tail(@)]
    /\ last' = IF name \in DOMAIN notificationCallbacks[c]
               THEN FactoryForOf(notificationCallbacks[c][name], params, <<>>)
               ELSE Step(NoFailure, <<>>)
    /\ UNCHANGED <<resolvers, running, calls, handled>>
  ELSE IF data.type = REQUEST THEN
    LET id == data.id
        name == data.name
        params == data.params
        callback == IF name \in DOMAIN requestCallbacks[c]
                    THEN requestCallbacks[c][name] ELSE NoHandler
        invocation == [id |-> id, fn |-> callback, params |-> params]
    IN
    /\ channel' =
         IF callback = NoHandler
         THEN FactorySend([channel EXCEPT ![c] = Tail(@)], c,
                [type |-> RESPONSE, id |-> id, error |-> NotImplementedError(name)])
         ELSE [channel EXCEPT ![c] = Tail(@)]
    /\ running' = IF callback = NoHandler THEN running
                  ELSE [running EXCEPT ![c] = @ \cup {invocation}]
    /\ handled' = [handled EXCEPT ![c] = MapSet(@, id, invocation)]
    /\ last' = Step(NoFailure, <<>>)
    /\ UNCHANGED <<resolvers, calls>>
  ELSE IF data.type = RESPONSE THEN
    LET error == Field(data, "error")
        id == data.id
        result == Field(data, "result")
    IN
    /\ channel' = [channel EXCEPT ![c] = Tail(@)]
    /\ IF id \in DOMAIN resolvers[c] THEN
         \* The resolver settles the promise made inside sendRequest.  The caller
         \* awaits it unless the post threw: then the returned promise is already
         \* rejected, and a rejection of the inner one has no handler.
         LET callbacks == resolvers[c][id]
             settled == IF Truthy(error) THEN Settle(calls[c][callbacks], "rejected", error)
                        ELSE Settle(calls[c][callbacks], "resolved", result)
             unheld == calls[c][callbacks].state # "pending"
         IN
         /\ resolvers' = [resolvers EXCEPT ![c] = MapDelete(@, id)]
         /\ calls' = IF unheld THEN calls ELSE [calls EXCEPT ![c][callbacks] = settled]
         /\ last' = Step(IF unheld /\ Truthy(error) THEN error ELSE NoFailure, <<>>)
       ELSE
         /\ last' = Step(MissingCallbackError(id), <<>>)
         /\ UNCHANGED <<resolvers, calls>>
    /\ UNCHANGED <<running, handled>>
  ELSE
    /\ channel' = [channel EXCEPT ![c] = Tail(@)]
    /\ last' = Step(NoFailure, <<>>)
    /\ UNCHANGED <<resolvers, running, calls, handled>>

\* The channel hands the oldest envelope in flight to the 'message' listeners of
\* its target: onMessage, until the factory's dispose has removed it.
FactoryDeliver(c) ==
  /\ channel[c] # <<>>
  /\ IF listening[c] THEN FactoryOnMessage(c, Head(channel[c]))
     ELSE /\ channel' = [channel EXCEPT ![c] = Tail(@)]
          /\ last' = Step(NoFailure, <<>>)
          /\ UNCHANGED <<resolvers, running, calls, handled>>
  /\ UNCHANGED <<disposed, requestId, requestCallbacks, notificationCallbacks, listening,
                 tokens, notifications, inputs>>
  /\ UNCHANGED <<fnMap, bridged>>

\* onMessage after `await callback(...params)`: the nested try/catch.  The
\* envelopes it posts (at most one), given the handler's outcome.
FactoryResponses(id, outcome) ==
  LET Error(error) == [type |-> RESPONSE, id |-> id, error |-> error]
      Outer(error) ==
        IF EnvelopeClonable(Error(error)) THEN <<Error(error)>> ELSE <<>>
      Inner(error) ==
        IF EnvelopeClonable(Error(error)) THEN <<Error(error)>>
        ELSE Outer(DataCloneError(error))
      resultData == [type |-> RESPONSE, id |-> id, result |-> outcome.value]
  IN
  IF ~outcome.ok THEN Inner(outcome.value)
  ELSE IF EnvelopeClonable(resultData) THEN <<resultData>>
  ELSE Inner(DataCloneError(outcome.value))

\* The handler's outcome arrives.
FactoryComplete(c, invocation) ==
  /\ invocation \in running[c]
  /\ running' = [running EXCEPT ![c] = @ \ {invocation}]
  /\ LET posted == FactoryResponses(invocation.id,
                                    HandlerOutcome(invocation.fn, invocation.params))
     IN IF posted = <<>> THEN
          /\ last' = Step(DataCloneError(JsUndefined), <<>>)
          /\ UNCHANGED channel
        ELSE
          /\ last' = Step(NoFailure, <<>>)
          /\ channel' = FactorySend(channel, c, posted[1])
  /\ UNCHANGED <<disposed, requestId, requestCallbacks, notificationCallbacks, resolvers,
                 listening, calls, tokens, handled, notifications, inputs>>
  /\ UNCHANGED <<fnMap, bridged>>

\* The steps of two threads that made their connections with createConnection.
\* The worker also posts messages of its own making: Responses of an id that was
\* never allocated, Responses of the id of the first request, and an envelope of
\* a type the protocol does not have.
FactoryNext ==
  \/ \E c \in Servers, name \in RequestNames, callback \in Handlers :
       FactoryOnRequest(c, name, callback)
  \/ \E c \in Servers, name \in NotificationNames, callback \in Listeners :
       FactoryOnNotification(c, name, callback)
  \/ \E c \in Servers, token \in Tokens : FactoryDisposeToken(c, token)
  \/ \E c \in Callers, name \in RequestNames, params \in Params :
       FactorySendRequest(c, name, params)
  \/ \E c \in Callers, name \in NotificationNames, params \in Params :
       FactorySendNotification(c, name, params)
  \/ \E c \in Servers, message \in StrayMessages \cup ForgedMessages :
       PostMessage(c, message)
  \/ \E c \in Conns : FactoryDispose(c)
  \/ \E c \in Conns : FactoryDeliver(c)
  \/ \E c \in Conns, invocation \in Invocations : FactoryComplete(c, invocation)

FactorySpec == FactoryInit /\ [][FactoryNext]_vars

\* C40: the class and the factory are equivalent.  The connections made by
\* createConnection start in the state of those made by new Connection, and from
\* every state they reach, each operation and each inbound envelope, with the
\* same arguments, takes the factory exactly where it takes the class: the same
\* disposed flag, id counter, pending ids and tables, the same envelopes posted
\* and the same failure reported.
C40_ClassAndFactoryEquivalent ==
  /\ Init
  /\ [][\A c \in Conns :
         /\ Dispose(c) <=> FactoryDispose(c)
         /\ Deliver(c) <=> FactoryDeliver(c)
         /\ \A invocation \in running[c] :
              Complete(c, invocation) <=> FactoryComplete(c, invocation)
         /\ \A token \in tokens[c] :
              DisposeToken(c, token) <=> FactoryDisposeToken(c, token)
         /\ inputs' # inputs =>
              /\ \A name \in RequestNames, callback \in Handlers :
                   OnRequest(c, name, callback) <=> FactoryOnRequest(c, name, callback)
              /\ \A name \in NotificationNames, callback \in Listeners :
                   OnNotification(c, name, callback)
                     <=> FactoryOnNotification(c, name, callback)
              /\ \A name \in RequestNames, params \in Params :
                   SendRequest(c, name, params) <=> FactorySendRequest(c, name, params)
              /\ \A name \in NotificationNames, params \in Params :
                   SendNotification(c, name, params)
                     <=> FactorySendNotification(c, name, params)]_vars

\* Two factory-made connections after a round trip: "worker" registered a
\* handler, "main" sent a request that the handler answered and that resolved,
\* and "main" was disposed.
C40_Witness ==
  /\ disposed["main"]
  /\ requestId["main"] = 1
  /\ calls["main"] # <<>>
  /\ calls["main"][1].state = "resolved"
  /\ tokens["worker"] # {}

====
